---- MODULE Spec2Model ----
(***************************************************************************)
(* Robomesh hub: the Robot Manager (dual index, add/remove with conflict   *)
(* resolution), the operator-in-the-loop admission workflow and the TCP    *)
(* REGISTER verb, modelled from the Go sources.                            *)
(*                                                                         *)
(* Every critical section guarded by RobotManager.mu is one step, taken by *)
(* the goroutine that holds the lock; a call takes the lock as it starts.  *)
(* The windows in which AddRobot has released the lock (its evict-and-     *)
(* retry loop) are visible to the other goroutines.                        *)
(*                                                                         *)
(* A RegisterRobot call is cut where other goroutines can act on what it   *)
(* shares with them: after Subscribe, while it waits in the select, after  *)
(* the select, and around AddRobot.  What a goroutine does on its own      *)
(* between two such points (writing to its connection, returning) belongs  *)
(* to the step before.                                                     *)
(***************************************************************************)
EXTENDS Naturals, Integers, Sequences, FiniteSets, TLC

----------------------------------------------------------------------------
(* Bounds of the model. *)

\* goroutines that call AddRobot / RemoveRobot directly
NumCallers == 2
\* handlers the factories may create in one run
MaxHandlers == 3
\* TCP connections open at the same time
NumSocks == 2
\* decision handlers the event bus has spawned and not yet run
MaxInflight == 2
\* REGISTER lines read in one run
MaxRegs == 2
\* goroutines that call Subscribe / Unsubscribe on the event bus
NumBusClients == 2
\* Subscribe / Unsubscribe calls the clients make in one run
MaxBusOps == 3
\* Subscribe / Unsubscribe calls the client makes in a run with a publisher
MaxPubOps == 4
\* Publish calls the publisher makes in one run
MaxPublishes == 2
\* self-healing Unsubscribe goroutines a run of Publish calls may start
MaxHeals == 1
\* capacity of the limiter channel (EVENT_BUS_BUFFER_SIZE, scaled down)
LimiterCap == 2
\* goroutines that enqueue into the safe queue
NumProducers == 2
\* values each of them enqueues in one run
MaxEnqueues == 2
\* goroutines that read from the safe queue
NumReaders == 2
\* Dequeue calls on an empty queue without a coordinator
MaxUnderflow == 2
\* goroutines that close the queue
NumClosers == 2
\* Close calls each of them makes
MaxCloses == 2
\* requests for the event stream that the server handles
NumStreams == 2
\* user sessions that open event streams
NumSessions == 2
\* milliseconds that pass while the streams are opened
MaxClock == 1
\* random ids that an event session may get
NumRandomIds == 2
\* events published while a stream is open
MaxSsePublishes == 2
\* requests that change the subscriptions of an open stream
MaxPosts == 2
\* payloads an event may carry
NumPayloads == 2
\* lines that a connection sends after its registration
MaxLines == 3
\* messages that the inbound queue of a handler holds
MsgChanCap == 2
\* SendMessage calls made by other parts of the server
MaxSends == 2
\* AddRobotType calls of a run
MaxAddTypes == 3
\* goroutines that work on one list of nodes, and the calls each makes
NumWorkers == 2
MaxNodeOps == 2

----------------------------------------------------------------------------
(* Identifiers.  Device ids are opaque tokens of the REGISTER line, ips are *)
(* the dotted form of the peer address; both are strings, and the decision *)
(* event name is built from them by concatenation.                         *)

DeviceIds == {"dev-1", "dev-11"}
Ips == {"1.0.0.7", "11.0.0.7", "10.0.0.8"}

\* the empty string: "identifier not supplied"
NoId == ""

\* a nil shared.RobotHandler (what a Go map yields for an absent key)
NoHandler == [dev |-> "", ip |-> "", id |-> 0]

\* the handlers a factory can return: device id and ip are fixed at
\* construction (NewBaseRobot), id tells two handler objects apart
Handlers == [dev : DeviceIds, ip : Ips, id : 1..MaxHandlers]

\* robot types of REGISTER lines; only the first has a factory
Types == {"proximity_sensor_robot", "drone"}
\* shared.ROBOT_FACTORY after the init() of the robot packages
ROBOT_FACTORY == {"proximity_sensor_robot", "example_robot_robot"}

Callers == {"caller"} \X (1..NumCallers)
\* goroutines of TCPServer.handleConnection, one per connection
Socks == {"sock"} \X (1..NumSocks)
\* the second goroutine RegisterRobot spawns, one per admitted handler
Sups == {"sup"} \X (1..MaxHandlers)
Threads == Callers \cup Socks \cup Sups
NoThread == <<"none", 0>>

ErrNone == "nil"
ErrRobotAlreadyExists == "robot-already-exists"
ErrRobotTransfer == "robot-transfer"
ErrRobotNotFound == "robot-not-found"
ErrRobotMismatch == "robot-mismatch"
ErrInvalidInput == "invalid-input"
ErrRobotNotAccepted == "robot-not-accepted"
ErrNoRobotTypeConnHandler == "no-robot-type-conn-handler"
ErrCreateConnHandler == "create-conn-handler"
ErrNoDisconnectChannel == "no-disconnect-channel"
\* a nil-pointer dereference: the goroutine panics and the process dies
Panic == "panic"

VARIABLES
    robotsByID,     \* RobotManager.robotsByID : device id -> handler
    robotsByIP,     \* RobotManager.robotsByIP : ip -> handler
    mu,             \* RobotManager.mu : the goroutine holding the write lock
    closed,         \* ids of the handlers whose disconnect channel is closed
    nextHandler,    \* id of the next handler a factory creates
    panicked,       \* an unrecovered panic has killed the process
    pc,             \* where each goroutine is
    call,           \* the manager call each goroutine is in
    sockIp,         \* conn.RemoteAddr() of each connection
    reg,            \* the RegisterRobot call of each connection (the last one)
    channel,        \* state of the channel of the current registration
    subscribers,    \* event bus: decision subscriptions, by event name
    registering,    \* RobotManager_t.registeringRobots
    inflight,       \* event bus: handler goroutines spawned and not yet run
    ctxDone,        \* main_context is cancelled
    out,            \* lines written to each connection for its last line read
    ownAccept,      \* an accept was published for the connection's own triple
    busSubscriptions, \* eb.subscriptions: event type -> SafeSet object
    busHandlers,    \* eb.handlers: subscriber -> SafeMap object
    setObjs,        \* the SafeSet objects allocated so far
    nodeObjs,       \* the Node objects allocated so far
    mapObjs,        \* the inner SafeMap objects allocated so far
    bpc,            \* where each goroutine of the bus is
    bcall,          \* the bus call each goroutine is in
    pub,            \* the publisher: its Publish call and its iterator
    limiter,        \* tokens in the limiter channel
    running,        \* handler invocations in flight
    crashed,        \* a handler panic has killed the process
    subscribed,     \* what the clients have asked for, by subscriber
    busOps,         \* Subscribe / Unsubscribe calls made so far
    heals,          \* self-healing goroutines started so far
    qUseWait,       \* SafeQueue.useWait
    qList,          \* the values between the head and the tail node
    qLen,           \* SafeQueue.len
    qNotify,        \* values in the buffer of SafeQueue.notifyCh
    qCoord,         \* where the startNotify goroutine is
    qProd,          \* where each producer is, and how many values it has sent
    qRead,          \* where each reader is, and what it got
    qOut,           \* the values in the order in which dequeue returned them
    chDone,         \* state of SafeQueue.done
    chNext,         \* state of SafeQueue.nextCh
    chNotify,       \* state of SafeQueue.notifyCh
    qPanicked,      \* a goroutine of the queue has panicked
    cpc,            \* where each closing goroutine is
    closes,         \* Close calls each closing goroutine has made
    sseClients,     \* EventsManager_t.clients: event session -> client object
    sseObjs,        \* the EventsClient objects, in the order of allocation
    sseClock,       \* time.Now().UnixMilli()
    stream,         \* where each eventsHandler goroutine is, and its locals
    ssePublished,   \* the events published so far
    ssePub,         \* the Publish call that is running: its event and the subscribers not yet looked up
    sseCalls,       \* the goroutines that Publish has started and that have not returned
    ssePosts,       \* requests for a change of subscriptions handled so far
    sseCrashed,     \* a goroutine has panicked outside any recover
    lnLoop,         \* the goroutine of handleConnection: where it is, its line and what it sends
    lnKind,         \* which SendMsg the handler of the connection's robot has
    lnMsgChan,      \* MsgChan of that handler: nil, or the messages in its buffer
    lnReply,        \* values in the reply channel made for each line
    lnHandler,      \* the goroutine that serves the handler's messages
    lnOut,          \* what the server has written to the connection
    lnCaller,       \* a goroutine that calls SendMessage
    DEBUG_MODE,     \* shared.DEBUG_MODE
    configDone,     \* InitConfig has run
    robotFactory,   \* the map ROBOT_FACTORY: the factory of each robot type
    factoryFirst,   \* history: the factory registered first for each robot type
    factoryCalls,   \* AddRobotType calls made
    factoryPanicked,\* log.Panicf was reached
    llKind,         \* the list belongs to a queue (head and tail) or to a set (head)
    llList,         \* next and prev of every node, the nodes made, the nodes in the set's map
    llLocked,       \* the leftLock and rightLock mutexes that are locked
    llG,            \* the goroutines of manageLeftLocks and manageRightLocks
    llW,            \* the goroutines that call the queue or the set
    llWriteMu,      \* SafeSet.writeMu: the goroutine that holds it
    llPanicked      \* a nil pointer was dereferenced

mgrVars == <<robotsByID, robotsByIP, mu, closed, nextHandler, panicked, pc, call>>
regVars == <<sockIp, reg, channel, subscribers, registering, inflight,
             ctxDone, out, ownAccept>>
coreVars == <<mgrVars, regVars>>
busVars == <<busSubscriptions, busHandlers, setObjs, nodeObjs, mapObjs, bpc,
             bcall, pub, limiter, running, crashed, subscribed, busOps, heals>>
queueVars == <<qUseWait, qList, qLen, qNotify, qCoord, qProd, qRead, qOut,
               chDone, chNext, chNotify, qPanicked, cpc, closes>>
sseVars == <<sseClients, sseObjs, sseClock, stream>>
feedVars == <<ssePublished, ssePub, sseCalls, ssePosts, sseCrashed>>
lineVars == <<lnLoop, lnKind, lnMsgChan, lnReply, lnHandler, lnOut, lnCaller>>
factoryVars == <<DEBUG_MODE, configDone, robotFactory, factoryFirst, factoryCalls, factoryPanicked>>
nodeVars == <<llKind, llList, llLocked, llG, llW, llWriteMu, llPanicked>>
libVars == <<busVars, queueVars, sseVars, feedVars, lineVars, factoryVars, nodeVars>>
vars == <<coreVars, libVars>>
busOthers == <<coreVars, queueVars, sseVars, feedVars, lineVars, factoryVars, nodeVars>>
queueOthers == <<coreVars, busVars, sseVars, feedVars, lineVars, factoryVars, nodeVars>>
sseOthers == <<coreVars, busVars, queueVars, feedVars, lineVars, factoryVars, nodeVars>>
feedOthers == <<coreVars, busVars, queueVars, lineVars, factoryVars, nodeVars>>
lineOthers == <<coreVars, busVars, queueVars, sseVars, feedVars, factoryVars, nodeVars>>
factoryOthers == <<coreVars, busVars, queueVars, sseVars, feedVars, lineVars, nodeVars>>
nodeOthers == <<coreVars, busVars, queueVars, sseVars, feedVars, lineVars, factoryVars>>

\* event types and subscribers of the event bus
BusTypes == {"T", "U"}
BusSubs == {"s1", "s2"}
\* the event type the publisher publishes
PubType == "T"
BusClients == {"client"} \X (1..NumBusClients)
Healers == {"heal"} \X (1..MaxHeals)
BusThreads == BusClients \cup Healers
\* nil, for the references to SafeSet, SafeMap and Node objects
NoObj == 0
NoBusCall == [op |-> "none", type |-> "", sub |-> "", ref |-> NoObj,
              all |-> FALSE, keys |-> {}, clean |-> TRUE, alone |-> TRUE]

\* the goroutines around a safe queue
Producers == {"prod"} \X (1..NumProducers)
Readers == {"reader"} \X (1..NumReaders)
Closers == {"closer"} \X (1..NumClosers)
\* the zero value that a failed dequeue returns
NoValue == <<"none", 0>>
\* the eventsHandler goroutines
Streams == {"stream"} \X (1..NumStreams)
\* shared.Session values of the requests
UserSessions == {"session"} \X (1..NumSessions)
\* results of utils.GenerateRandomString(16)
RandomIds == {"rid"} \X (1..NumRandomIds)
\* EventSession: the key type of EventsManager_t.clients
EventSessions ==
    [Session : UserSessions, Timestamp : 0..MaxClock, RandomID : RandomIds]
\* no client object
NoClient == 0
\* the event name of the request's events parameter
SseEvents == {"robot_status"}
\* locals of an eventsHandler goroutine before it has a session
NoStream ==
    [pc |-> "idle", session |-> <<"session", 0>>, eSess |-> <<>>,
     names |-> {}, client |-> NoClient, target |-> NoClient, after |-> "idle"]
\* the type of the first event of a stream
EVENT_TYPE_SESSION_ID == "__session_id"
\* no event: ev numbers the published events from 1
NoEvent == [Type |-> "", Data |-> "", ev |-> 0]
\* data of the published events
Payloads == {"payload"} \X (1..NumPayloads)
\* the request handler of the first stream
FirstStream == <<"stream", 1>>
\* the connection's address and the robot registered from it
LineIp == "1.0.0.7"
LineDev == "dev-1"
LineHandler == [dev |-> LineDev, ip |-> LineIp, id |-> 1]
\* the first word of a line: TRANSFER, or a word that is no command
LineWords == {"TRANSFER", "STATUS"}
ErrMsgChannelUninitialized == "msg-channel-uninitialized"
ErrMsgUnknownType == "msg-unknown-type"
ErrQueueFull == "message-queue-full"
\* no message
NoMsg == [Msg |-> "", line |-> 0, reply |-> FALSE]
\* a nil channel of messages, and make(chan Msg, MsgChanCap)
NilChan == [nil |-> TRUE, buf |-> <<>>]
MakeChan == [nil |-> FALSE, buf |-> <<>>]
\* the type tags of the robot modules
RobotTypeTags == {"proximity_sensor_robot", "example_robot_robot"}
\* factory functions; a nil NewRobotConnHandlerFunc; no entry in the map
FactoryFuncs == {"proximity_sensor.NewRobotConnHandlerFunc", "examplerobot.NewRobotConnHandlerFunc"}
NilFunc == "nil"
NoFunc == "none"
\* the nodes of a list: the dummy head, the dummy tail of a queue, and the
\* nodes that the calls make
LlNodes == 1..(2 + NumWorkers * MaxNodeOps)
LlHead == 1
LlTail == 2
\* a nil *Node
NilNode == 0
Workers == {"worker"} \X (1..NumWorkers)
NoWorker == <<"none", 0>>
\* the two lock goroutines a call can have at a time
Slots == {1, 2}
\* a lock goroutine that does not run
NoLockG == [pc |-> "off", n |-> 0, l |-> 0, held |-> {}, first |-> ""]

NoCall == [op |-> "none", dev |-> NoId, ip |-> NoId, h |-> NoHandler,
           res |-> ErrNone, evicted |-> {}]

----------------------------------------------------------------------------
(* Accessors of a handler (BaseRobotHandler). *)

GetDeviceID(h) == h.dev
GetIP(h) == h.ip
\* the robot view a handler gives: the record built at construction
GetRobotOf(h) == [device_id |-> h.dev, ip |-> h.ip]

Exists(m, k) == m[k] # NoHandler

\* shared.SafeClose on a disconnect channel: closes it unless closed already
SafeClose(cl, h) == cl \cup {h.id}

\* delete(m, k) of a Go map; a key that is absent (or "") is left alone
Delete(m, k) == IF k \in DOMAIN m THEN [m EXCEPT ![k] = NoHandler] ELSE m

\* m[k] of a Go map: nil for an absent key
Lookup(m, k) == IF k \in DOMAIN m THEN m[k] ELSE NoHandler

----------------------------------------------------------------------------
\* a RemoveRobot that does not compare the handler of the device id with
\* the handler of the ip: it removes the robot that either of them names
RemoveRobotUnchecked(byID, byIP, cl, d, i) ==
    IF d = NoId /\ i = NoId
    THEN [byID |-> byID, byIP |-> byIP, closed |-> cl, res |-> ErrInvalidInput]
    ELSE IF d # NoId /\ Lookup(byID, d) # NoHandler
    THEN [byID |-> Delete(byID, d), byIP |-> Delete(byIP, GetIP(Lookup(byID, d))),
          closed |-> SafeClose(cl, Lookup(byID, d)), res |-> ErrNone]
    ELSE IF i # NoId /\ Lookup(byIP, i) # NoHandler
    THEN [byID |-> Delete(byID, GetDeviceID(Lookup(byIP, i))), byIP |-> Delete(byIP, i),
          closed |-> SafeClose(cl, Lookup(byIP, i)), res |-> ErrNone]
    ELSE [byID |-> byID, byIP |-> byIP, closed |-> cl, res |-> ErrRobotNotFound]

----------------------------------------------------------------------------
(* RobotManager.RemoveRobot, the part under the lock: the maps, the closed *)
(* channels and the error that result.                                     *)

RemoveRobotBody(byID, byIP, cl, d, i) ==
    IF d = NoId /\ i = NoId
    THEN [byID |-> byID, byIP |-> byIP, closed |-> cl, res |-> ErrInvalidInput]
    ELSE IF d # NoId /\ i # NoId
    THEN IF Lookup(byID, d) # Lookup(byIP, i)
         THEN [byID |-> byID, byIP |-> byIP, closed |-> cl, res |-> ErrRobotMismatch]
         ELSE LET handler == Lookup(byID, d) IN
              IF handler = NoHandler
              THEN \* handler.GetDisconnectChannel() on a nil interface
                   [byID |-> byID, byIP |-> byIP, closed |-> cl, res |-> Panic]
              ELSE [byID |-> Delete(byID, d), byIP |-> Delete(byIP, i),
                    closed |-> SafeClose(cl, handler), res |-> ErrNone]
    ELSE IF d # NoId
    THEN LET handler == Lookup(byID, d) IN
         IF handler # NoHandler
         THEN [byID |-> Delete(byID, d), byIP |-> Delete(byIP, GetIP(handler)),
               closed |-> SafeClose(cl, handler), res |-> ErrNone]
         ELSE [byID |-> byID, byIP |-> byIP, closed |-> cl, res |-> ErrRobotNotFound]
    ELSE LET handler == Lookup(byIP, i) IN
         IF handler # NoHandler
         THEN [byID |-> Delete(byID, GetDeviceID(handler)), byIP |-> Delete(byIP, i),
               closed |-> SafeClose(cl, handler), res |-> ErrNone]
         ELSE [byID |-> byID, byIP |-> byIP, closed |-> cl, res |-> ErrRobotNotFound]

----------------------------------------------------------------------------
(* RobotManager.GetHandler and GetRobot (under the read lock).             *)

GetHandler(d, i) ==
    IF d # NoId /\ i # NoId
    THEN IF Lookup(robotsByID, d) # Lookup(robotsByIP, i)
         THEN [h |-> NoHandler, err |-> ErrRobotMismatch]
         ELSE [h |-> Lookup(robotsByID, d), err |-> ErrNone]
    ELSE IF d # NoId
    THEN IF Lookup(robotsByID, d) # NoHandler
         THEN [h |-> Lookup(robotsByID, d), err |-> ErrNone]
         ELSE [h |-> NoHandler, err |-> ErrRobotNotFound]
    ELSE IF i # NoId
    THEN IF Lookup(robotsByIP, i) # NoHandler
         THEN [h |-> Lookup(robotsByIP, i), err |-> ErrNone]
         ELSE [h |-> NoHandler, err |-> ErrRobotNotFound]
    ELSE [h |-> NoHandler, err |-> ErrInvalidInput]

GetRobot(d, i) ==
    IF d # NoId /\ i # NoId
    THEN IF Lookup(robotsByID, d) # Lookup(robotsByIP, i)
         THEN [robot |-> GetRobotOf(NoHandler), err |-> ErrRobotMismatch]
         ELSE IF Lookup(robotsByID, d) = NoHandler
              THEN [robot |-> GetRobotOf(NoHandler), err |-> Panic]
              ELSE [robot |-> GetRobotOf(Lookup(robotsByID, d)), err |-> ErrNone]
    ELSE IF d # NoId
    THEN IF Lookup(robotsByID, d) # NoHandler
         THEN [robot |-> GetRobotOf(Lookup(robotsByID, d)), err |-> ErrNone]
         ELSE [robot |-> GetRobotOf(NoHandler), err |-> ErrRobotNotFound]
    ELSE IF i # NoId
    THEN IF Lookup(robotsByIP, i) # NoHandler
         THEN [robot |-> GetRobotOf(Lookup(robotsByIP, i)), err |-> ErrNone]
         ELSE [robot |-> GetRobotOf(NoHandler), err |-> ErrRobotNotFound]
    ELSE [robot |-> GetRobotOf(NoHandler), err |-> ErrInvalidInput]

----------------------------------------------------------------------------
(* RobotManager.AddRobot.                                                  *)

\* rm.mu.Lock() after the eviction, before the jump back to retry
AddLock(t) ==
    /\ ~panicked
    /\ pc[t] = "add_lock"
    /\ mu = NoThread
    /\ mu' = t
    /\ pc' = [pc EXCEPT ![t] = "add_body"]
    /\ UNCHANGED <<robotsByID, robotsByIP, closed, nextHandler, panicked, call>>
    /\ UNCHANGED libVars
    /\ UNCHANGED regVars

\* the transfer branch: the device is present, the ip is free
AddRobotTransfer(byIP, byID, d, i) ==
    Delete([byIP EXCEPT ![i] = byID[d]], GetIP(byID[d]))

\* from the retry label to the return, or to the Unlock before the eviction
AddBody(t) ==
    /\ ~panicked
    /\ pc[t] = "add_body"
    /\ mu = t
    /\ LET d == call[t].dev
           i == call[t].ip
       IN
       IF Exists(robotsByIP, i)
       THEN IF GetDeviceID(robotsByIP[i]) # d
            THEN /\ pc' = [pc EXCEPT ![t] = "add_evict"]
                 /\ UNCHANGED <<robotsByID, robotsByIP, call>>
            ELSE /\ pc' = [pc EXCEPT ![t] = "add_ret"]
                 /\ call' = [call EXCEPT ![t].res = ErrRobotAlreadyExists]
                 /\ UNCHANGED <<robotsByID, robotsByIP>>
       ELSE IF Exists(robotsByID, d)
            THEN /\ robotsByIP' = AddRobotTransfer(robotsByIP, robotsByID, d, i)
                 /\ pc' = [pc EXCEPT ![t] = "add_ret"]
                 /\ call' = [call EXCEPT ![t].res = ErrRobotTransfer]
                 /\ UNCHANGED robotsByID
            ELSE /\ robotsByID' = [robotsByID EXCEPT ![d] = call[t].h]
                 /\ robotsByIP' = [robotsByIP EXCEPT ![i] = call[t].h]
                 /\ pc' = [pc EXCEPT ![t] = "add_ret"]
                 /\ call' = [call EXCEPT ![t].res = ErrNone]
    /\ mu' = NoThread
    /\ UNCHANGED <<closed, nextHandler, panicked>>
    /\ UNCHANGED libVars
    /\ UNCHANGED regVars

\* rm.RemoveRobot("", ip) inside AddRobot: its Lock
AddEvictLock(t) ==
    /\ ~panicked
    /\ pc[t] = "add_evict"
    /\ mu = NoThread
    /\ mu' = t
    /\ pc' = [pc EXCEPT ![t] = "add_evict_body"]
    /\ UNCHANGED <<robotsByID, robotsByIP, closed, nextHandler, panicked, call>>
    /\ UNCHANGED libVars
    /\ UNCHANGED regVars

\* rm.RemoveRobot("", ip) inside AddRobot: its body; the error is dropped
AddEvictBody(t) ==
    /\ ~panicked
    /\ pc[t] = "add_evict_body"
    /\ mu = t
    /\ LET r == RemoveRobotBody(robotsByID, robotsByIP, closed, NoId, call[t].ip) IN
       /\ robotsByID' = r.byID
       /\ robotsByIP' = r.byIP
       /\ closed' = r.closed
       /\ call' = [call EXCEPT ![t].evicted =
                      IF r.res = ErrNone
                      THEN @ \cup {robotsByIP[call[t].ip].id}
                      ELSE @]
    /\ mu' = NoThread
    /\ pc' = [pc EXCEPT ![t] = "add_lock"]
    /\ UNCHANGED <<nextHandler, panicked>>
    /\ UNCHANGED libVars
    /\ UNCHANGED regVars

----------------------------------------------------------------------------
(* RobotManager.RemoveRobot as a call of its own.                          *)

RemBody(t) ==
    /\ ~panicked
    /\ pc[t] = "rem_body"
    /\ mu = t
    /\ LET r == RemoveRobotBody(robotsByID, robotsByIP, closed, call[t].dev, call[t].ip) IN
       /\ robotsByID' = r.byID
       /\ robotsByIP' = r.byIP
       /\ closed' = r.closed
       /\ call' = [call EXCEPT ![t].res = r.res]
       /\ panicked' = (r.res = Panic)
    /\ mu' = NoThread
    /\ pc' = [pc EXCEPT ![t] = "rem_ret"]
    /\ UNCHANGED nextHandler
    /\ UNCHANGED libVars
    /\ UNCHANGED regVars

----------------------------------------------------------------------------
(* Goroutines that call the manager directly.                              *)

\* a factory builds a handler for (d, i) and the caller hands it to AddRobot,
\* which starts by taking the lock
CallAddRobot(t, d, i) ==
    /\ ~panicked
    /\ pc[t] = "idle"
    /\ nextHandler <= MaxHandlers
    /\ mu = NoThread
    /\ mu' = t
    /\ call' = [call EXCEPT ![t] =
                   [op |-> "add", dev |-> d, ip |-> i,
                    h |-> [dev |-> d, ip |-> i, id |-> nextHandler],
                    res |-> ErrNone, evicted |-> {}]]
    /\ nextHandler' = nextHandler + 1
    /\ pc' = [pc EXCEPT ![t] = "add_body"]
    /\ UNCHANGED <<robotsByID, robotsByIP, closed, panicked>>
    /\ UNCHANGED libVars
    /\ UNCHANGED regVars

\* RemoveRobot starts by taking the lock
CallRemoveRobot(t, d, i) ==
    /\ ~panicked
    /\ pc[t] = "idle"
    /\ mu = NoThread
    /\ mu' = t
    /\ call' = [call EXCEPT ![t] =
                   [op |-> "remove", dev |-> d, ip |-> i, h |-> NoHandler,
                    res |-> ErrNone, evicted |-> {}]]
    /\ pc' = [pc EXCEPT ![t] = "rem_body"]
    /\ UNCHANGED <<robotsByID, robotsByIP, closed, nextHandler, panicked>>
    /\ UNCHANGED libVars
    /\ UNCHANGED regVars

\* the call has returned to its caller
CallReturn(t) ==
    /\ ~panicked
    /\ pc[t] \in {"add_ret", "rem_ret"}
    /\ pc' = [pc EXCEPT ![t] = "idle"]
    /\ call' = [call EXCEPT ![t] = NoCall]
    /\ UNCHANGED <<robotsByID, robotsByIP, mu, closed, nextHandler, panicked>>
    /\ UNCHANGED libVars
    /\ UNCHANGED regVars

----------------------------------------------------------------------------
(* The admission workflow: handleRegister, RegisterRobot and               *)
(* handleRegisteringRobotEvent, run by the goroutine of a connection.      *)

\* no RegisterRobot call yet on a connection
NoReg == [dev |-> NoId, type |-> "", gen |-> 0, published |-> FALSE,
          accepted |-> FALSE, how |-> "none", err |-> ErrNone,
          addRes |-> ErrNone, hid |-> 0]

\* the peer address of the n-th connection
SockIpOf(n) == IF n = 1 THEN "1.0.0.7" ELSE IF n = 2 THEN "11.0.0.7" ELSE "10.0.0.8"

\* fmt.Sprintf("register.%s%s%s", deviceID, ip, robotType)
EventString(d, i, ty) == "register." \o d \o i \o ty

\* the RegisteringRobot value of a registration
RegisteringRobot(d, i, ty) == [DeviceID |-> d, IP |-> i, RobotType |-> ty]

RegRobotOf(s) == RegisteringRobot(reg[s].dev, sockIp[s], reg[s].type)

\* a handleRegister whose switch has no default case: nothing is written
\* for an error it does not name
FinalLineNoDefault(err) ==
    IF err = ErrNone THEN "OK"
    ELSE IF err = ErrNoRobotTypeConnHandler THEN "ERROR NO_ROBOT_TYPE_CONN_HANDLER"
    ELSE IF err = ErrCreateConnHandler THEN "ERROR CREATE_CONN_HANDLER"
    ELSE IF err = ErrRobotAlreadyExists THEN "ERROR ROBOT_ALREADY_EXISTS"
    ELSE IF err = ErrNoDisconnectChannel THEN "ERROR NO_DISCONNECT_CHANNEL"
    ELSE ""

\* the line handleRegister writes once RegisterRobot has returned err
FinalLine(err) ==
    IF err = ErrNone THEN "OK"
    ELSE IF err = ErrNoRobotTypeConnHandler THEN "ERROR NO_ROBOT_TYPE_CONN_HANDLER"
    ELSE IF err = ErrCreateConnHandler THEN "ERROR CREATE_CONN_HANDLER"
    ELSE IF err = ErrRobotAlreadyExists THEN "ERROR ROBOT_ALREADY_EXISTS"
    ELSE IF err = ErrNoDisconnectChannel THEN "ERROR NO_DISCONNECT_CHANNEL"
    ELSE "ERROR UNKNOWN"

\* REGISTER lines read so far on the connections of S
RECURSIVE RegsRead(_)
RegsRead(S) ==
    IF S = {} THEN 0
    ELSE LET s == CHOOSE x \in S : TRUE IN reg[s].gen + RegsRead(S \ {s})

\* the read loop takes a line "REGISTER <type> <device id>": handleRegister
\* calls RegisterRobot, which writes REGISTERING; handleRegisteringRobotEvent
\* makes the channel and subscribes to the decision event
ReadRegister(s, d, ty) ==
    /\ ~panicked
    /\ pc[s] = "idle"
    /\ RegsRead(Socks) < MaxRegs
    /\ reg' = [reg EXCEPT ![s] = [NoReg EXCEPT !.dev = d, !.type = ty, !.gen = reg[s].gen + 1]]
    /\ out' = [out EXCEPT ![s] = <<"REGISTERING">>]
    /\ ownAccept' = [ownAccept EXCEPT ![s] = FALSE]
    /\ channel' = [channel EXCEPT ![s] = "open"]
    /\ subscribers' = subscribers \cup
          {[name |-> EventString(d, sockIp[s], ty), sock |-> s, gen |-> reg[s].gen + 1]}
    /\ pc' = [pc EXCEPT ![s] = "reg_add"]
    /\ UNCHANGED <<robotsByID, robotsByIP, mu, closed, nextHandler, panicked, call>>
    /\ UNCHANGED libVars
    /\ UNCHANGED <<sockIp, registering, inflight, ctxDone>>

\* registeringRobots.Add, then Publish of the registering_robot event; the
\* goroutine then parks in the select
RegAnnounce(s) ==
    /\ ~panicked
    /\ pc[s] = "reg_add"
    /\ registering' = registering \cup {RegRobotOf(s)}
    /\ reg' = [reg EXCEPT ![s].published = TRUE]
    /\ pc' = [pc EXCEPT ![s] = "reg_wait"]
    /\ UNCHANGED <<robotsByID, robotsByIP, mu, closed, nextHandler, panicked, call>>
    /\ UNCHANGED libVars
    /\ UNCHANGED <<sockIp, channel, subscribers, inflight, ctxDone, out, ownAccept>>

\* the select ends with time.After(REGISTERING_WAIT_TIMEOUT)
RegTimeout(s) ==
    /\ ~panicked
    /\ pc[s] = "reg_wait"
    /\ reg' = [reg EXCEPT ![s].accepted = FALSE, ![s].how = "timeout"]
    /\ pc' = [pc EXCEPT ![s] = "reg_close"]
    /\ UNCHANGED <<robotsByID, robotsByIP, mu, closed, nextHandler, panicked, call>>
    /\ UNCHANGED libVars
    /\ UNCHANGED <<sockIp, channel, subscribers, registering, inflight,
                   ctxDone, out, ownAccept>>

\* the select ends with main_context.Done()
RegCancel(s) ==
    /\ ~panicked
    /\ pc[s] = "reg_wait"
    /\ ctxDone
    /\ reg' = [reg EXCEPT ![s].accepted = FALSE, ![s].how = "cancel"]
    /\ pc' = [pc EXCEPT ![s] = "reg_close"]
    /\ UNCHANGED <<robotsByID, robotsByIP, mu, closed, nextHandler, panicked, call>>
    /\ UNCHANGED libVars
    /\ UNCHANGED <<sockIp, channel, subscribers, registering, inflight,
                   ctxDone, out, ownAccept>>

\* a Remove that leaves the set as it is
RegKeepRobot(rs, r) == rs

\* registeringRobots.Remove(regRobot)
RegRemoveRobot(rs, r) == rs \ {r}

\* the error RegisterRobot returns once the admission wait is over and no
\* robot is to be added: not accepted, or accepted with no factory for the type
RegisterRobotRefusal(accepted, ty) ==
    IF ~accepted THEN ErrRobotNotAccepted
    ELSE IF ty \notin ROBOT_FACTORY THEN ErrNoRobotTypeConnHandler
    ELSE ErrNone

\* eventBus.Unsubscribe(eventString, sub)
Unsubscribe(subs, s) == {x \in subs : x.sock # s}

\* after the select: close(channel), Unsubscribe, registeringRobots.Remove,
\* and handleRegisteringRobotEvent returns to RegisterRobot; if that returns
\* an error at once, handleRegister writes the final line and the read loop
\* goes on
RegRemove(s) ==
    /\ ~panicked
    /\ pc[s] = "reg_close"
    /\ channel' = [channel EXCEPT ![s] = "closed"]
    /\ subscribers' = Unsubscribe(subscribers, s)
    /\ registering' = RegRemoveRobot(registering, RegRobotOf(s))
    /\ LET err == RegisterRobotRefusal(reg[s].accepted, reg[s].type) IN
       IF err # ErrNone
       THEN /\ reg' = [reg EXCEPT ![s].err = err]
            /\ out' = [out EXCEPT ![s] = Append(@, FinalLine(err))]
            /\ pc' = [pc EXCEPT ![s] = "idle"]
       ELSE /\ pc' = [pc EXCEPT ![s] = "reg_ret"]
            /\ UNCHANGED <<reg, out>>
    /\ UNCHANGED <<robotsByID, robotsByIP, mu, closed, nextHandler, panicked, call>>
    /\ UNCHANGED libVars
    /\ UNCHANGED <<sockIp, inflight, ctxDone, ownAccept>>

\* RegisterRobot: the factory builds the handler (it never fails and always
\* gives a disconnect channel) and AddRobot is called, taking the lock
RegAddRobot(s) ==
    /\ ~panicked
    /\ pc[s] = "reg_ret"
    /\ nextHandler <= MaxHandlers
    /\ mu = NoThread
    /\ mu' = s
    /\ call' = [call EXCEPT ![s] =
                   [op |-> "add", dev |-> reg[s].dev, ip |-> sockIp[s],
                    h |-> [dev |-> reg[s].dev, ip |-> sockIp[s], id |-> nextHandler],
                    res |-> ErrNone, evicted |-> {}]]
    /\ reg' = [reg EXCEPT ![s].hid = nextHandler]
    /\ nextHandler' = nextHandler + 1
    /\ pc' = [pc EXCEPT ![s] = "add_body"]
    /\ UNCHANGED <<robotsByID, robotsByIP, closed, panicked>>
    /\ UNCHANGED libVars
    /\ UNCHANGED <<sockIp, channel, subscribers, registering, inflight,
                   ctxDone, out, ownAccept>>

\* the error RegisterRobot returns for the error of AddRobot
RegisterRobotErr(addErr) ==
    IF addErr # ErrNone THEN ErrRobotAlreadyExists ELSE ErrNone

\* RegisterRobot after AddRobot: any error ends the call; otherwise the two
\* goroutines of the robot are spawned (Start of a proximity sensor only
\* waits for the disconnect channel) and the call returns nil.  Then
\* handleRegister writes the final line and the read loop goes on.
RegAfterAdd(s) ==
    /\ ~panicked
    /\ pc[s] = "add_ret"
    /\ reg' = [reg EXCEPT ![s].addRes = call[s].res,
                          ![s].err = RegisterRobotErr(call[s].res)]
    /\ out' = [out EXCEPT ![s] = Append(@, FinalLine(RegisterRobotErr(call[s].res)))]
    /\ IF RegisterRobotErr(call[s].res) # ErrNone
       THEN /\ pc' = [pc EXCEPT ![s] = "idle"]
            /\ call' = [call EXCEPT ![s] = NoCall]
       ELSE LET t == <<"sup", call[s].h.id>> IN
            /\ pc' = [pc EXCEPT ![s] = "idle", ![t] = "sup_wait"]
            /\ call' = [call EXCEPT ![s] = NoCall,
                                    ![t] = [op |-> "remove", dev |-> call[s].dev,
                                            ip |-> call[s].ip, h |-> call[s].h,
                                            res |-> ErrNone, evicted |-> {}]]
    /\ UNCHANGED <<robotsByID, robotsByIP, mu, closed, nextHandler, panicked>>
    /\ UNCHANGED libVars
    /\ UNCHANGED <<sockIp, channel, subscribers, registering, inflight,
                   ctxDone, ownAccept>>

----------------------------------------------------------------------------
(* The operator's decision (registerRobotHandler, HandleRegister) and the  *)
(* event bus that carries it.                                              *)

\* the registration of s has been started and its wait has not ended
Pending(s) == pc[s] \in {"reg_add", "reg_wait"}

\* POST of accept "yes" / "no" for a robot (d, i, ty): Publish spawns one
\* handler goroutine for each subscriber of the event name (with no
\* subscriber it does nothing)
OperatorDecide(d, i, ty, b) ==
    /\ ~panicked
    /\ LET targets == {x \in subscribers : x.name = EventString(d, i, ty)}
           new == {[sock |-> x.sock, gen |-> x.gen, val |-> b,
                    robot |-> RegisteringRobot(d, i, ty)] : x \in targets}
       IN /\ targets # {}
          /\ Cardinality(inflight \cup new) <= MaxInflight
          /\ inflight' = inflight \cup new
    /\ ownAccept' = [s \in Socks |->
                        \/ ownAccept[s]
                        \/ /\ b
                           /\ Pending(s)
                           /\ RegRobotOf(s) = RegisteringRobot(d, i, ty)]
    /\ UNCHANGED mgrVars
    /\ UNCHANGED libVars
    /\ UNCHANGED <<sockIp, reg, channel, subscribers, registering, ctxDone, out>>

\* the channel a handler goroutine sends on is closed
ChannelClosed(inv) ==
    \/ inv.gen < reg[inv.sock].gen
    \/ channel[inv.sock] = "closed"

\* the subscriber's handler: select { case channel <- b: default: } with the
\* receiver parked in its select and not yet woken by main_context.Done()
HandlerDelivers(inv) ==
    /\ ~panicked
    /\ inv \in inflight
    /\ ~ChannelClosed(inv)
    /\ pc[inv.sock] = "reg_wait"
    /\ ~ctxDone
    /\ inflight' = inflight \ {inv}
    /\ reg' = [reg EXCEPT ![inv.sock].accepted = inv.val, ![inv.sock].how = "decision"]
    /\ pc' = [pc EXCEPT ![inv.sock] = "reg_close"]
    /\ UNCHANGED <<robotsByID, robotsByIP, mu, closed, nextHandler, panicked, call>>
    /\ UNCHANGED libVars
    /\ UNCHANGED <<sockIp, channel, subscribers, registering, ctxDone, out,
                   ownAccept>>

\* the handler with no receiver ready (none parked, or the one parked was
\* woken by main_context.Done()): the default case, the value is lost
HandlerDrops(inv) ==
    /\ ~panicked
    /\ inv \in inflight
    /\ ~ChannelClosed(inv)
    /\ pc[inv.sock] # "reg_wait" \/ ctxDone
    /\ inflight' = inflight \ {inv}
    /\ UNCHANGED mgrVars
    /\ UNCHANGED libVars
    /\ UNCHANGED <<sockIp, reg, channel, subscribers, registering, ctxDone,
                   out, ownAccept>>

\* the handler on a closed channel: the send panics in a goroutine with no
\* recover
HandlerPanics(inv) ==
    /\ ~panicked
    /\ inv \in inflight
    /\ ChannelClosed(inv)
    /\ inflight' = inflight \ {inv}
    /\ panicked' = TRUE
    /\ UNCHANGED <<robotsByID, robotsByIP, mu, closed, nextHandler, pc, call>>
    /\ UNCHANGED libVars
    /\ UNCHANGED <<sockIp, reg, channel, subscribers, registering, ctxDone,
                   out, ownAccept>>

\* the main context is cancelled
Cancel ==
    /\ ~panicked
    /\ ~ctxDone
    /\ ctxDone' = TRUE
    /\ UNCHANGED mgrVars
    /\ UNCHANGED libVars
    /\ UNCHANGED <<sockIp, reg, channel, subscribers, registering, inflight,
                   out, ownAccept>>

----------------------------------------------------------------------------
(* The goroutine RegisterRobot leaves behind for an admitted robot.        *)

\* the select ends (context done, or the disconnect channel is closed),
\* connHandler.Stop() closes the channel, RemoveRobot takes the lock
SupWake(t) ==
    /\ ~panicked
    /\ pc[t] = "sup_wait"
    /\ ctxDone \/ call[t].h.id \in closed
    /\ closed' = SafeClose(closed, call[t].h)
    /\ mu = NoThread
    /\ mu' = t
    /\ pc' = [pc EXCEPT ![t] = "rem_body"]
    /\ UNCHANGED <<robotsByID, robotsByIP, nextHandler, panicked, call>>
    /\ UNCHANGED libVars
    /\ UNCHANGED regVars

----------------------------------------------------------------------------
(* The manager on its own: NewRobotManager, then any calls.                *)

\* NewRobotManager: both indices empty, the lock free
ManagerNew ==
    /\ robotsByID = [d \in DeviceIds |-> NoHandler]
    /\ robotsByIP = [i \in Ips |-> NoHandler]
    /\ mu = NoThread
    /\ closed = {}
    /\ nextHandler = 1
    /\ panicked = FALSE
    /\ pc = [t \in Threads |-> "idle"]
    /\ call = [t \in Threads |-> NoCall]

\* no REGISTER line read yet, nothing subscribed, nothing pending
RegIdle ==
    /\ reg = [s \in Socks |-> NoReg]
    /\ channel = [s \in Socks |-> "none"]
    /\ subscribers = {}
    /\ registering = {}
    /\ inflight = {}
    /\ ctxDone = FALSE
    /\ out = [s \in Socks |-> <<>>]
    /\ ownAccept = [s \in Socks |-> FALSE]

\* no connection is open
NoConn == sockIp = [s \in Socks |-> NoId]

\* NewEventBus(): both indices empty, nothing allocated, nobody calling
NewEventBus ==
    /\ busSubscriptions = [T \in BusTypes |-> NoObj]
    /\ busHandlers = [s \in BusSubs |-> NoObj]
    /\ setObjs = <<>>
    /\ nodeObjs = <<>>
    /\ mapObjs = <<>>
    /\ bpc = [t \in BusThreads |-> "idle"]
    /\ bcall = [t \in BusThreads |-> NoBusCall]
    /\ pub = [st |-> "idle", node |-> NoObj, n |-> 0, elig |-> {}, gone |-> {},
              cnt |-> [s \in BusSubs |-> 0]]
    /\ limiter = 0
    /\ running = 0
    /\ crashed = FALSE
    /\ subscribed = [s \in BusSubs |-> [T \in BusTypes |-> "new"]]
    /\ busOps = 0
    /\ heals = 0

\* NewSafeQueue(useWait): an empty list, and in wait mode the four channels
\* and the startNotify goroutine; without wait mode the channels stay nil
NewSafeQueue(useWait) ==
    /\ qUseWait = useWait
    /\ qList = <<>>
    /\ qLen = 0
    /\ qNotify = 0
    /\ qCoord = IF useWait THEN "select" ELSE "none"
    /\ qProd = [p \in Producers |-> [pc |-> "idle", n |-> 0]]
    /\ qRead = [r \in Readers |-> [pc |-> "idle", slept |-> FALSE,
                                   value |-> NoValue, ok |-> FALSE]]
    /\ qOut = <<>>
    /\ chDone = IF useWait THEN "open" ELSE "nil"
    /\ chNext = IF useWait THEN "open" ELSE "nil"
    /\ chNotify = IF useWait THEN "open" ELSE "nil"
    /\ qPanicked = FALSE
    /\ cpc = [c \in Closers |-> "idle"]
    /\ closes = [c \in Closers |-> 0]

\* NewEventsManager: no clients; no request is being handled
NewEventsManager ==
    /\ sseClients = [k \in EventSessions |-> NoClient]
    /\ sseObjs = <<>>
    /\ sseClock = 0
    /\ stream = [h \in Streams |-> NoStream]

\* nothing has been published and no request has changed a subscription
NoFeed ==
    /\ ssePublished = <<>>
    /\ ssePub = [event |-> NoEvent, pending |-> {}]
    /\ sseCalls = {}
    /\ ssePosts = 0
    /\ sseCrashed = FALSE

\* a connection that has sent no line, and no SendMessage call
LineIdle ==
    /\ lnLoop = [pc |-> "scan", n |-> 0, msg |-> NoMsg, resumed |-> 0]
    /\ lnKind = "base"
    /\ lnMsgChan = NilChan
    /\ lnReply = [n \in 1..MaxLines |-> 0]
    /\ lnHandler = [pc |-> "idle", msg |-> NoMsg]
    /\ lnOut = <<>>
    /\ lnCaller = [pc |-> "idle", msg |-> NoMsg, res |-> ErrNone, n |-> 0]

\* the package variables before any init function has run
FactoryIdle ==
    /\ DEBUG_MODE = FALSE
    /\ configDone = FALSE
    /\ robotFactory = [ty \in RobotTypeTags |-> NoFunc]
    /\ factoryFirst = [ty \in RobotTypeTags |-> NoFunc]
    /\ factoryCalls = 0
    /\ factoryPanicked = FALSE

\* NewSafeQueue: head.next = tail, tail.prev = head; NewSafeSet: a head alone
NewList(kind) ==
    /\ llKind = kind
    /\ llList = [next |-> [n \in LlNodes |-> IF kind = "queue" /\ n = LlHead THEN LlTail ELSE NilNode],
                 prev |-> [n \in LlNodes |-> IF kind = "queue" /\ n = LlTail THEN LlHead ELSE NilNode],
                 used |-> 2,
                 members |-> {}]
    /\ llLocked = {}
    /\ llG = [w \in Workers |-> [k \in Slots |-> NoLockG]]
    /\ llW = [w \in Workers |-> [pc |-> "idle", n |-> 0, ops |-> 0]]
    /\ llWriteMu = NoWorker
    /\ llPanicked = FALSE

LibIdle ==
    /\ NewEventBus
    /\ NewSafeQueue(FALSE)
    /\ NewEventsManager
    /\ NoFeed
    /\ LineIdle
    /\ FactoryIdle
    /\ NewList("queue")

MgrInit ==
    /\ ManagerNew
    /\ RegIdle
    /\ NoConn
    /\ LibIdle

MgrNext ==
    \/ \E t \in Callers, d \in DeviceIds, i \in Ips : CallAddRobot(t, d, i)
    \/ \E t \in Callers, d \in DeviceIds \cup {NoId}, i \in Ips \cup {NoId} :
          CallRemoveRobot(t, d, i)
    \/ \E t \in Callers : AddLock(t)
    \/ \E t \in Callers : AddBody(t)
    \/ \E t \in Callers : AddEvictLock(t)
    \/ \E t \in Callers : AddEvictBody(t)
    \/ \E t \in Callers : RemBody(t)
    \/ \E t \in Callers : CallReturn(t)

SpecMgr == MgrInit /\ [][MgrNext]_vars

----------------------------------------------------------------------------
(* One caller: the calls of a run form a plain sequence.                   *)

FirstCaller == <<"caller", 1>>

SeqNext ==
    \/ \E d \in DeviceIds, i \in Ips : CallAddRobot(FirstCaller, d, i)
    \/ \E d \in DeviceIds \cup {NoId}, i \in Ips \cup {NoId} :
          CallRemoveRobot(FirstCaller, d, i)
    \/ AddLock(FirstCaller)
    \/ AddBody(FirstCaller)
    \/ AddEvictLock(FirstCaller)
    \/ AddEvictBody(FirstCaller)
    \/ RemBody(FirstCaller)
    \/ CallReturn(FirstCaller)

SpecSeq == MgrInit /\ [][SeqNext]_vars

----------------------------------------------------------------------------
(* Two goroutines that each call AddRobot once, on a manager that is empty *)
(* or holds one robot admitted before (the state a completed               *)
(* AddRobot(d0, i0, h) leaves).                                            *)

RaceInit ==
    /\ LibIdle
    /\ RegIdle
    /\ NoConn
    /\ mu = NoThread
    /\ closed = {}
    /\ panicked = FALSE
    /\ pc = [t \in Threads |-> "idle"]
    /\ call = [t \in Threads |-> NoCall]
    /\ \/ /\ robotsByID = [d \in DeviceIds |-> NoHandler]
          /\ robotsByIP = [i \in Ips |-> NoHandler]
          /\ nextHandler = 1
       \/ \E d0 \in DeviceIds, i0 \in Ips :
             LET h0 == [dev |-> d0, ip |-> i0, id |-> 1] IN
             /\ robotsByID = [d \in DeviceIds |-> IF d = d0 THEN h0 ELSE NoHandler]
             /\ robotsByIP = [i \in Ips |-> IF i = i0 THEN h0 ELSE NoHandler]
             /\ nextHandler = 2

\* a goroutine of the race makes its one call
RaceCallAddRobot(t, d, i) ==
    /\ call[t].op = "none"
    /\ CallAddRobot(t, d, i)

RaceNext ==
    \/ \E t \in Callers, d \in DeviceIds, i \in Ips : RaceCallAddRobot(t, d, i)
    \/ \E t \in Callers : AddLock(t)
    \/ \E t \in Callers : AddBody(t)
    \/ \E t \in Callers : AddEvictLock(t)
    \/ \E t \in Callers : AddEvictBody(t)

SpecRace == RaceInit /\ [][RaceNext]_vars

----------------------------------------------------------------------------
(* The hub: connections that send REGISTER lines, the operator, the event  *)
(* bus and the goroutines of the admitted robots.                          *)

Init ==
    /\ LibIdle
    /\ ManagerNew
    /\ RegIdle
    /\ sockIp = [s \in Socks |-> SockIpOf(s[2])]

SockStep(s) ==
    \/ RegAnnounce(s)
    \/ RegTimeout(s)
    \/ RegCancel(s)
    \/ RegRemove(s)
    \/ RegAddRobot(s)
    \/ AddBody(s)
    \/ AddEvictLock(s)
    \/ AddEvictBody(s)
    \/ AddLock(s)
    \/ RegAfterAdd(s)

HandlerStep ==
    \/ \E inv \in inflight : HandlerDelivers(inv)
    \/ \E inv \in inflight : HandlerDrops(inv)
    \/ \E inv \in inflight : HandlerPanics(inv)

SupStep(t) ==
    \/ SupWake(t)
    \/ RemBody(t)

Next ==
    \/ \E s \in Socks, d \in DeviceIds, ty \in Types : ReadRegister(s, d, ty)
    \/ \E s \in Socks : SockStep(s)
    \/ \E d \in DeviceIds, i \in Ips, ty \in Types, b \in BOOLEAN :
          OperatorDecide(d, i, ty, b)
    \/ HandlerStep
    \/ Cancel
    \/ \E t \in Sups : SupStep(t)

Spec == Init /\ [][Next]_vars

----------------------------------------------------------------------------
(* The event bus.  eb.subscriptions maps an event type to a SafeSet of     *)
(* subscribers, eb.handlers maps a subscriber to a SafeMap from event type *)
(* to handler.  The sets and inner maps are objects on the heap: a         *)
(* goroutine keeps the reference it got from the outer map while another   *)
(* goroutine deletes the entry, so every call on a SafeMap, SafeSet or     *)
(* Node is one step and the calls of Subscribe, Unsubscribe and Publish    *)
(* interleave.  A SafeSet keeps its values in a doubly linked list behind  *)
(* a head node; the iterator goroutine walks the list while the publisher  *)
(* receives the values.                                                    *)

\* Node.AddRight(value) on node n: the heap of nodes afterwards
AddRight(nd, n, value) ==
    LET newNode == Len(nd) + 1
        old == nd[n].next
        nd1 == Append(nd, [value |-> value, prev |-> n, next |-> old])
        nd2 == IF old # NoObj THEN [nd1 EXCEPT ![old].prev = newNode] ELSE nd1
    IN  [nd2 EXCEPT ![n].next = newNode]

\* Node._RemoveSelf() on node n: the neighbours are linked to each other,
\* the node keeps its own next and prev
RemoveSelf(nd, n) ==
    LET p == nd[n].prev
        nx == nd[n].next
        nd1 == IF p # NoObj THEN [nd EXCEPT ![p].next = nx] ELSE nd
    IN  IF nx # NoObj THEN [nd1 EXCEPT ![nx].prev = p] ELSE nd1

\* SafeSet.Contains
Contains(S, value) == setObjs[S].mp[value] # NoObj

\* SafeSet.IsEmpty
SetIsEmpty(S) == \A v \in BusSubs : setObjs[S].mp[v] = NoObj

\* SafeSet.Add(value) on set S
SetAdd(S, value) ==
    IF Contains(S, value)
    THEN UNCHANGED <<setObjs, nodeObjs>>
    ELSE /\ nodeObjs' = AddRight(nodeObjs, setObjs[S].head, value)
         /\ setObjs' = [setObjs EXCEPT ![S].mp[value] = Len(nodeObjs) + 1]

\* SafeSet.Remove(value) on set S
SetRemove(S, value) ==
    IF ~Contains(S, value)
    THEN UNCHANGED <<setObjs, nodeObjs>>
    ELSE /\ nodeObjs' = RemoveSelf(nodeObjs, setObjs[S].mp[value])
         /\ setObjs' = [setObjs EXCEPT ![S].mp[value] = NoObj]

\* the calls of the other goroutines that an Unsubscribe(T, s) overlaps
\* with: the Subscribe calls for s and T (for s, when T is empty)
SubscribesOf(T, s) ==
    {u \in BusThreads : /\ bcall[u].op = "Subscribe"
                        /\ bcall[u].sub = s
                        /\ (T = "" \/ bcall[u].type = T)}

\* the Unsubscribe calls that a Subscribe(T, s) overlaps with
UnsubscribesOf(T, s) ==
    {u \in BusThreads : /\ bcall[u].op = "Unsubscribe"
                        /\ bcall[u].sub = s
                        /\ (bcall[u].all \/ bcall[u].type = T)}

\* clean: no Unsubscribe of any goroutine has overlapped with the call;
\* alone: no call of another client has
MarkOverlap(bc, us) ==
    [u \in BusThreads |-> IF u \in us THEN [bc[u] EXCEPT !.clean = FALSE]
                          ELSE bc[u]]

MarkClientOverlap(bc, us) ==
    [u \in BusThreads |-> IF u \in us
                          THEN [bc[u] EXCEPT !.clean = FALSE, !.alone = FALSE]
                          ELSE bc[u]]

\* the subscriber has been passed to Subscribe before
Known(s) == \E T \in BusTypes : subscribed[s][T] # "new"

\* the subscribers are handed out in order: their names carry no meaning
SubOrder == <<"s1", "s2">>
NextSubscriber(s) ==
    \E i \in 1..Len(SubOrder) :
       SubOrder[i] = s /\ \A j \in 1..(i - 1) : Known(SubOrder[j])

\* a client calls Subscribe(T, s, handler)
BusSubscribe(t, T, s) ==
    /\ ~crashed
    /\ bpc[t] = "idle"
    /\ Known(s) \/ NextSubscriber(s)
    /\ busOps' = busOps + 1
    /\ bpc' = [bpc EXCEPT ![t] = "s23"]
    /\ bcall' = [MarkClientOverlap(bcall, UnsubscribesOf(T, s) \cap BusClients)
                    EXCEPT ![t] =
                   [op |-> "Subscribe", type |-> T, sub |-> s, ref |-> NoObj,
                    all |-> FALSE, keys |-> {},
                    clean |-> UnsubscribesOf(T, s) = {},
                    alone |-> UnsubscribesOf(T, s) \cap BusClients = {}]]
    /\ subscribed' = [subscribed EXCEPT ![s][T] = "no"]
    /\ pub' = IF T = PubType THEN [pub EXCEPT !.gone = @ \ {s}] ELSE pub
    /\ UNCHANGED <<busSubscriptions, busHandlers, setObjs, nodeObjs, mapObjs,
                   limiter, running, crashed, heals>>
    /\ UNCHANGED busOthers

\* eb.handlers.GetOrDefault(*subscriber, NewSafeMap())
SubGetHandlers(t) ==
    /\ ~crashed
    /\ bpc[t] \in {"s23", "s27"}
    /\ LET s == bcall[t].sub IN
       IF busHandlers[s] # NoObj
       THEN /\ bcall' = [bcall EXCEPT ![t].ref = busHandlers[s]]
            /\ UNCHANGED <<busHandlers, mapObjs>>
       ELSE /\ mapObjs' = Append(mapObjs, {})
            /\ busHandlers' = [busHandlers EXCEPT ![s] = Len(mapObjs) + 1]
            /\ bcall' = [bcall EXCEPT ![t].ref = Len(mapObjs) + 1]
    /\ bpc' = [bpc EXCEPT ![t] = IF bpc[t] = "s23" THEN "s23set" ELSE "s29"]
    /\ UNCHANGED <<busSubscriptions, setObjs, nodeObjs, pub, limiter, running,
                   crashed, subscribed, busOps, heals>>
    /\ UNCHANGED busOthers

\* .Set(eventType, handler) on the map that GetOrDefault returned
SubSetHandler(t) ==
    /\ ~crashed
    /\ bpc[t] = "s23set"
    /\ mapObjs' = [mapObjs EXCEPT ![bcall[t].ref] = @ \cup {bcall[t].type}]
    /\ bpc' = [bpc EXCEPT ![t] = "s27"]
    /\ UNCHANGED <<busSubscriptions, busHandlers, setObjs, nodeObjs, bcall, pub,
                   limiter, running, crashed, subscribed, busOps, heals>>
    /\ UNCHANGED busOthers

\* the retry loop: leave it when the handler is there, set it again otherwise
SubCheckHandler(t) ==
    /\ ~crashed
    /\ bpc[t] = "s29"
    /\ IF bcall[t].type \in mapObjs[bcall[t].ref]
       THEN /\ bpc' = [bpc EXCEPT ![t] = "s38"]
            /\ UNCHANGED mapObjs
       ELSE /\ mapObjs' = [mapObjs EXCEPT ![bcall[t].ref] = @ \cup {bcall[t].type}]
            /\ bpc' = [bpc EXCEPT ![t] = "s27"]
    /\ UNCHANGED <<busSubscriptions, busHandlers, setObjs, nodeObjs, bcall, pub,
                   limiter, running, crashed, subscribed, busOps, heals>>
    /\ UNCHANGED busOthers

\* eb.subscriptions.GetOrDefault(eventType, NewSafeSet())
SubGetSet(t) ==
    /\ ~crashed
    /\ bpc[t] \in {"s38", "s42"}
    /\ LET T == bcall[t].type IN
       IF busSubscriptions[T] # NoObj
       THEN /\ bcall' = [bcall EXCEPT ![t].ref = busSubscriptions[T]]
            /\ UNCHANGED <<busSubscriptions, setObjs, nodeObjs>>
       ELSE /\ nodeObjs' = Append(nodeObjs, [value |-> "", prev |-> NoObj,
                                             next |-> NoObj])
            /\ setObjs' = Append(setObjs, [head |-> Len(nodeObjs) + 1,
                                           mp |-> [v \in BusSubs |-> NoObj]])
            /\ busSubscriptions' = [busSubscriptions EXCEPT ![T] = Len(setObjs) + 1]
            /\ bcall' = [bcall EXCEPT ![t].ref = Len(setObjs) + 1]
    /\ bpc' = [bpc EXCEPT ![t] = IF bpc[t] = "s38" THEN "s38add" ELSE "s43"]
    /\ UNCHANGED <<busHandlers, mapObjs, pub, limiter, running, crashed,
                   subscribed, busOps, heals>>
    /\ UNCHANGED busOthers

\* .Add(*subscriber) on the set that GetOrDefault returned
SubAdd(t) ==
    /\ ~crashed
    /\ bpc[t] = "s38add"
    /\ SetAdd(bcall[t].ref, bcall[t].sub)
    /\ bpc' = [bpc EXCEPT ![t] = "s42"]
    /\ UNCHANGED <<busSubscriptions, busHandlers, mapObjs, bcall, pub, limiter,
                   running, crashed, subscribed, busOps, heals>>
    /\ UNCHANGED busOthers

\* a Subscribe that returns after its first Add, without the retry loop
SubCheckSetNoRetry(t) ==
    /\ ~crashed
    /\ bpc[t] = "s43"
    /\ bpc' = [bpc EXCEPT ![t] = "sub_ret"]
    /\ subscribed' = [subscribed EXCEPT ![bcall[t].sub][bcall[t].type] =
                        IF bcall[t].alone THEN "yes" ELSE "no"]
    /\ UNCHANGED <<busSubscriptions, busHandlers, setObjs, nodeObjs, mapObjs,
                   bcall, pub, limiter, running, crashed, busOps, heals>>
    /\ UNCHANGED busOthers

\* the retry loop: return when the subscriber is in the set, add it again
\* otherwise
SubCheckSet(t) ==
    /\ ~crashed
    /\ bpc[t] = "s43"
    /\ IF Contains(bcall[t].ref, bcall[t].sub)
       THEN /\ bpc' = [bpc EXCEPT ![t] = "sub_ret"]
            /\ subscribed' = [subscribed EXCEPT ![bcall[t].sub][bcall[t].type] =
                                IF bcall[t].alone THEN "yes" ELSE "no"]
            /\ UNCHANGED <<setObjs, nodeObjs>>
       ELSE /\ SetAdd(bcall[t].ref, bcall[t].sub)
            /\ bpc' = [bpc EXCEPT ![t] = "s42"]
            /\ UNCHANGED subscribed
    /\ UNCHANGED <<busSubscriptions, busHandlers, mapObjs, bcall, pub, limiter,
                   running, crashed, busOps, heals>>
    /\ UNCHANGED busOthers

\* the caller of Subscribe or Unsubscribe goes on
BusReturn(t) ==
    /\ ~crashed
    /\ bpc[t] \in {"sub_ret", "un_ret"}
    /\ bpc' = [bpc EXCEPT ![t] = "idle"]
    /\ bcall' = [bcall EXCEPT ![t] = NoBusCall]
    /\ UNCHANGED <<busSubscriptions, busHandlers, setObjs, nodeObjs, mapObjs,
                   pub, limiter, running, crashed, subscribed, busOps, heals>>
    /\ UNCHANGED busOthers

\* an Unsubscribe that returns at once, as the one for a nil subscriber
BusUnsubscribeNothing(t, T, s) ==
    /\ ~crashed
    /\ bpc[t] = "idle"
    /\ Known(s)
    /\ busOps' = busOps + 1
    /\ bpc' = [bpc EXCEPT ![t] = "un_ret"]
    /\ bcall' = [bcall EXCEPT ![t] =
                   [op |-> "Unsubscribe", type |-> T, sub |-> s, ref |-> NoObj,
                    all |-> T = "", keys |-> {},
                    clean |-> SubscribesOf(T, s) = {},
                    alone |-> SubscribesOf(T, s) = {}]]
    /\ subscribed' = [subscribed EXCEPT ![s] =
                        [e \in BusTypes |-> IF T = "" \/ e = T THEN "gone" ELSE @[e]]]
    /\ pub' = IF T \in {PubType, ""} THEN [pub EXCEPT !.elig = @ \ {s}] ELSE pub
    /\ UNCHANGED <<busSubscriptions, busHandlers, setObjs, nodeObjs, mapObjs,
                   limiter, running, crashed, heals>>
    /\ UNCHANGED busOthers

\* a client calls Unsubscribe(T, s); T = "" asks for all event types
BusUnsubscribe(t, T, s) ==
    /\ ~crashed
    /\ bpc[t] = "idle"
    /\ Known(s)
    /\ busOps' = busOps + 1
    /\ bpc' = [bpc EXCEPT ![t] = IF T = "" THEN "u59" ELSE "u70"]
    /\ bcall' = [MarkClientOverlap(bcall, SubscribesOf(T, s)) EXCEPT ![t] =
                   [op |-> "Unsubscribe", type |-> T, sub |-> s, ref |-> NoObj,
                    all |-> T = "", keys |-> {},
                    clean |-> SubscribesOf(T, s) = {},
                    alone |-> SubscribesOf(T, s) = {}]]
    /\ subscribed' = [subscribed EXCEPT ![s] =
                        [e \in BusTypes |-> IF T = "" \/ e = T THEN "no" ELSE @[e]]]
    /\ pub' = IF T \in {PubType, ""} THEN [pub EXCEPT !.elig = @ \ {s}] ELSE pub
    /\ UNCHANGED <<busSubscriptions, busHandlers, setObjs, nodeObjs, mapObjs,
                   limiter, running, crashed, heals>>
    /\ UNCHANGED busOthers

\* one Unsubscribe(event, subscriber) is over: the next key of the range
\* loop, or the return (a self-healing goroutine just ends)
UnsubEnd(t) ==
    IF bcall[t].all /\ bcall[t].keys # {}
    THEN /\ \E e \in bcall[t].keys :
               bcall' = [bcall EXCEPT ![t].type = e, ![t].keys = @ \ {e}]
         /\ bpc' = [bpc EXCEPT ![t] = "u70"]
         /\ UNCHANGED subscribed
    ELSE IF t \in Healers
    THEN /\ bcall' = [bcall EXCEPT ![t] = NoBusCall]
         /\ bpc' = [bpc EXCEPT ![t] = "idle"]
         /\ UNCHANGED subscribed
    ELSE /\ bpc' = [bpc EXCEPT ![t] = "un_ret"]
         /\ subscribed' = [subscribed EXCEPT ![bcall[t].sub] =
               [e \in BusTypes |->
                   IF bcall[t].all \/ e = bcall[t].type
                   THEN (IF bcall[t].alone THEN "gone" ELSE "no")
                   ELSE @[e]]]
         /\ UNCHANGED bcall

\* eventType == "": events, ok := eb.handlers.Get(*subscriber), GetKeys()
UnsubKeys(t) ==
    /\ ~crashed
    /\ bpc[t] = "u59"
    /\ LET events == busHandlers[bcall[t].sub] IN
       IF events = NoObj
       THEN /\ bpc' = [bpc EXCEPT ![t] = "un_ret"]
            /\ subscribed' = [subscribed EXCEPT ![bcall[t].sub] =
                  [e \in BusTypes |-> IF bcall[t].alone THEN "gone" ELSE "no"]]
            /\ UNCHANGED bcall
       ELSE IF mapObjs[events] = {}
       THEN /\ bpc' = [bpc EXCEPT ![t] = "un_ret"]
            /\ subscribed' = [subscribed EXCEPT ![bcall[t].sub] =
                  [e \in BusTypes |-> IF bcall[t].alone THEN "gone" ELSE "no"]]
            /\ UNCHANGED bcall
       ELSE /\ \E e \in mapObjs[events] :
                  bcall' = [bcall EXCEPT ![t].type = e,
                                         ![t].keys = mapObjs[events] \ {e}]
            /\ bpc' = [bpc EXCEPT ![t] = "u70"]
            /\ UNCHANGED subscribed
    /\ UNCHANGED <<busSubscriptions, busHandlers, setObjs, nodeObjs, mapObjs,
                   pub, limiter, running, crashed, busOps, heals>>
    /\ UNCHANGED busOthers

\* multiset, ok := eb.subscriptions.Get(eventType)
UnsubGetSet(t) ==
    /\ ~crashed
    /\ bpc[t] = "u70"
    /\ LET multiset == busSubscriptions[bcall[t].type] IN
       IF multiset # NoObj
       THEN /\ bcall' = [bcall EXCEPT ![t].ref = multiset]
            /\ bpc' = [bpc EXCEPT ![t] = "u71"]
       ELSE /\ bpc' = [bpc EXCEPT ![t] = "u74"]
            /\ UNCHANGED bcall
    /\ UNCHANGED <<busSubscriptions, busHandlers, setObjs, nodeObjs, mapObjs,
                   pub, limiter, running, crashed, subscribed, busOps, heals>>
    /\ UNCHANGED busOthers

\* multiset.Remove(*subscriber)
UnsubRemove(t) ==
    /\ ~crashed
    /\ bpc[t] = "u71"
    /\ SetRemove(bcall[t].ref, bcall[t].sub)
    /\ bpc' = [bpc EXCEPT ![t] = "u72"]
    /\ UNCHANGED <<busSubscriptions, busHandlers, mapObjs, bcall, pub, limiter,
                   running, crashed, subscribed, busOps, heals>>
    /\ UNCHANGED busOthers

\* eb.subscriptions.DeleteIfEmpty(eventType)
UnsubDeleteSet(t) ==
    /\ ~crashed
    /\ bpc[t] = "u72"
    /\ LET T == bcall[t].type IN
       busSubscriptions' =
          IF busSubscriptions[T] # NoObj /\ SetIsEmpty(busSubscriptions[T])
          THEN [busSubscriptions EXCEPT ![T] = NoObj]
          ELSE busSubscriptions
    /\ bpc' = [bpc EXCEPT ![t] = "u74"]
    /\ UNCHANGED <<busHandlers, setObjs, nodeObjs, mapObjs, bcall, pub, limiter,
                   running, crashed, subscribed, busOps, heals>>
    /\ UNCHANGED busOthers

\* handlers, ok := eb.handlers.Get(*subscriber)
UnsubGetHandlers(t) ==
    /\ ~crashed
    /\ bpc[t] = "u74"
    /\ LET handlers == busHandlers[bcall[t].sub] IN
       IF handlers # NoObj
       THEN /\ bcall' = [bcall EXCEPT ![t].ref = handlers]
            /\ bpc' = [bpc EXCEPT ![t] = "u75"]
            /\ UNCHANGED subscribed
       ELSE UnsubEnd(t)
    /\ UNCHANGED <<busSubscriptions, busHandlers, setObjs, nodeObjs, mapObjs,
                   pub, limiter, running, crashed, busOps, heals>>
    /\ UNCHANGED busOthers

\* handlers.Delete(eventType)
UnsubDeleteHandler(t) ==
    /\ ~crashed
    /\ bpc[t] = "u75"
    /\ mapObjs' = [mapObjs EXCEPT ![bcall[t].ref] = @ \ {bcall[t].type}]
    /\ bpc' = [bpc EXCEPT ![t] = "u76"]
    /\ UNCHANGED <<busSubscriptions, busHandlers, setObjs, nodeObjs, bcall, pub,
                   limiter, running, crashed, subscribed, busOps, heals>>
    /\ UNCHANGED busOthers

\* eb.handlers.DeleteIfEmpty(*subscriber), the end of the call
UnsubDeleteHandlers(t) ==
    /\ ~crashed
    /\ bpc[t] = "u76"
    /\ LET s == bcall[t].sub IN
       busHandlers' =
          IF busHandlers[s] # NoObj /\ mapObjs[busHandlers[s]] = {}
          THEN [busHandlers EXCEPT ![s] = NoObj]
          ELSE busHandlers
    /\ UnsubEnd(t)
    /\ UNCHANGED <<busSubscriptions, setObjs, nodeObjs, mapObjs, pub, limiter,
                   running, crashed, busOps, heals>>
    /\ UNCHANGED busOthers

\* Publish(event) begins: subscribers, ok := eb.subscriptions.Get(eventType)
\* and subscribers.Iterate(), which starts the iterator goroutine at the
\* head of the list
PubStart ==
    /\ ~crashed
    /\ pub.st = "idle"
    /\ pub.n < MaxPublishes
    /\ LET set == busSubscriptions[PubType] IN
       pub' = [st |-> IF set = NoObj THEN "idle" ELSE "iter",
               node |-> IF set = NoObj THEN NoObj
                        ELSE setObjs[set].head,
               n |-> pub.n + 1,
               elig |-> {s \in BusSubs : subscribed[s][PubType] = "yes"},
               gone |-> {s \in BusSubs : subscribed[s][PubType] = "gone"},
               cnt |-> [s \in BusSubs |-> 0]]
    /\ UNCHANGED <<busSubscriptions, busHandlers, setObjs, nodeObjs, mapObjs,
                   bpc, bcall, limiter, running, crashed, subscribed, busOps,
                   heals>>
    /\ UNCHANGED busOthers

\* the iterator goroutine: node = node.GetRight(); at the end of the list
\* it closes the channel, the range loop ends and Publish returns
IterNext ==
    /\ ~crashed
    /\ pub.st = "iter"
    /\ LET node == nodeObjs[pub.node].next IN
       pub' = [pub EXCEPT !.st = IF node = NoObj THEN "idle" ELSE "send",
                          !.node = node]
    /\ UNCHANGED <<busSubscriptions, busHandlers, setObjs, nodeObjs, mapObjs,
                   bpc, bcall, limiter, running, crashed, subscribed, busOps,
                   heals>>
    /\ UNCHANGED busOthers

\* eb.handlers.Get(sub) and mp.Get(eventType) both find something
HandlerFound(sub) ==
    /\ busHandlers[sub] # NoObj
    /\ PubType \in mapObjs[busHandlers[sub]]

\* a publisher that does not wait for the limiter
LimiterIgnored(l) == TRUE

\* limiter <- true can proceed
LimiterHasRoom(l) == l < LimiterCap

\* the range loop receives sub and finds its handler: limiter <- true, then
\* the goroutine that runs handler(event)
PubDeliver ==
    /\ ~crashed
    /\ pub.st = "send"
    /\ HandlerFound(nodeObjs[pub.node].value)
    /\ LimiterHasRoom(limiter)
    /\ limiter' = limiter + 1
    /\ running' = running + 1
    /\ pub' = [pub EXCEPT !.st = "iter",
                          !.cnt[nodeObjs[pub.node].value] = @ + 1]
    /\ UNCHANGED <<busSubscriptions, busHandlers, setObjs, nodeObjs, mapObjs,
                   bpc, bcall, crashed, subscribed, busOps, heals>>
    /\ UNCHANGED busOthers

\* the range loop receives sub and finds no handler:
\* go eb.Unsubscribe(eventType, &sub)
PubHeal(h) ==
    /\ ~crashed
    /\ pub.st = "send"
    /\ ~HandlerFound(nodeObjs[pub.node].value)
    /\ bpc[h] = "idle"
    /\ heals < MaxHeals
    /\ heals' = heals + 1
    /\ LET sub == nodeObjs[pub.node].value IN
       bcall' = [MarkOverlap(bcall, SubscribesOf(PubType, sub)) EXCEPT ![h] =
                   [op |-> "Unsubscribe", type |-> PubType, sub |-> sub,
                    ref |-> NoObj, all |-> FALSE, keys |-> {},
                    clean |-> FALSE, alone |-> FALSE]]
    /\ bpc' = [bpc EXCEPT ![h] = "u70"]
    /\ pub' = [pub EXCEPT !.st = "iter"]
    /\ UNCHANGED <<busSubscriptions, busHandlers, setObjs, nodeObjs, mapObjs,
                   limiter, running, crashed, subscribed, busOps>>
    /\ UNCHANGED busOthers

\* the same, when the goroutine it starts does not get to run in this run
PubHealLater ==
    /\ ~crashed
    /\ pub.st = "send"
    /\ ~HandlerFound(nodeObjs[pub.node].value)
    /\ heals = MaxHeals
    /\ pub' = [pub EXCEPT !.st = "iter"]
    /\ UNCHANGED <<busSubscriptions, busHandlers, setObjs, nodeObjs, mapObjs,
                   bpc, bcall, limiter, running, crashed, subscribed, busOps,
                   heals>>
    /\ UNCHANGED busOthers

\* handler(event) returns and the deferred <-limiter runs
HandlerReturns ==
    /\ ~crashed
    /\ running > 0
    /\ running' = running - 1
    /\ limiter' = limiter - 1
    /\ UNCHANGED <<busSubscriptions, busHandlers, setObjs, nodeObjs, mapObjs,
                   bpc, bcall, pub, crashed, subscribed, busOps, heals>>
    /\ UNCHANGED busOthers

\* handler(event) panics: nothing in the goroutine recovers, the process
\* ends
HandlerPanic ==
    /\ ~crashed
    /\ running > 0
    /\ crashed' = TRUE
    /\ UNCHANGED <<busSubscriptions, busHandlers, setObjs, nodeObjs, mapObjs,
                   bpc, bcall, pub, limiter, running, subscribed, busOps, heals>>
    /\ UNCHANGED busOthers

\* nothing but the event bus is in use
BusInit ==
    /\ ManagerNew
    /\ RegIdle
    /\ NoConn
    /\ NewEventBus
    /\ NewSafeQueue(FALSE)
    /\ NewEventsManager
    /\ NoFeed
    /\ LineIdle
    /\ FactoryIdle
    /\ NewList("queue")

BusClientStep(t) ==
    \/ SubGetHandlers(t)
    \/ SubSetHandler(t)
    \/ SubCheckHandler(t)
    \/ SubGetSet(t)
    \/ SubAdd(t)
    \/ SubCheckSet(t)
    \/ BusReturn(t)
    \/ UnsubKeys(t)

UnsubStep(t) ==
    \/ UnsubGetSet(t)
    \/ UnsubRemove(t)
    \/ UnsubDeleteSet(t)
    \/ UnsubGetHandlers(t)
    \/ UnsubDeleteHandler(t)
    \/ UnsubDeleteHandlers(t)

\* the clients of the bus call Subscribe and Unsubscribe side by side;
\* nothing is published
ClientSubscribe(t, T, s) ==
    /\ busOps < MaxBusOps
    /\ BusSubscribe(t, T, s)

ClientUnsubscribe(t, T, s) ==
    /\ busOps < MaxBusOps
    /\ BusUnsubscribe(t, T, s)

BusNext ==
    \/ \E t \in BusClients, T \in BusTypes, s \in BusSubs :
          ClientSubscribe(t, T, s)
    \/ \E t \in BusClients, T \in BusTypes \cup {""}, s \in BusSubs :
          ClientUnsubscribe(t, T, s)
    \/ \E t \in BusClients : BusClientStep(t)
    \/ \E t \in BusClients : UnsubStep(t)

SpecBus == BusInit /\ [][BusNext]_vars

\* one client, the publisher, the handlers it starts and the self-healing
\* goroutines
FirstClient == <<"client", 1>>

PubStep ==
    \/ PubStart
    \/ IterNext
    \/ PubDeliver
    \/ \E h \in Healers : PubHeal(h)
    \/ PubHealLater
    \/ HandlerReturns
    \/ HandlerPanic

\* the client keeps to the event type that is published
PubSubscribe(s) ==
    /\ busOps < MaxPubOps
    /\ BusSubscribe(FirstClient, PubType, s)

PubUnsubscribe(T, s) ==
    /\ busOps < MaxPubOps
    /\ BusUnsubscribe(FirstClient, T, s)

PubNext ==
    \/ \E s \in BusSubs : PubSubscribe(s)
    \/ \E T \in {PubType, ""}, s \in BusSubs : PubUnsubscribe(T, s)
    \/ BusClientStep(FirstClient)
    \/ \E t \in {FirstClient} \cup Healers : UnsubStep(t)
    \/ PubStep

SpecPub == BusInit /\ [][PubNext]_vars

----------------------------------------------------------------------------
(* The safe queue.  Enqueue links a node before the tail and then adds one *)
(* to len; in wait mode the startNotify goroutine hands one token on       *)
(* nextCh to one reader at a time and waits on readValCh until that reader *)
(* has taken its value.  The unbuffered channels nextCh and readValCh are  *)
(* steps that the sender and the receiver take together.                   *)

\* a queue that links the new node after the head
HeadAddRight(list, value) == <<value>> \o list

\* q.tail.AddLeft(value): the new node is the last one before the tail
TailAddLeft(list, value) == Append(list, value)

\* an Enqueue that never sends on notifyCh
NeverNotify(n) == FALSE

\* Enqueue sends on notifyCh when len.Add(1) returns 1
ShouldNotify(n) == n = 1

\* Enqueue(value): q.tail.AddLeft(value)
Enqueue(p) ==
    /\ ~qPanicked
    /\ qProd[p].pc = "idle"
    /\ qProd[p].n < MaxEnqueues
    /\ qList' = TailAddLeft(qList, <<p[2], qProd[p].n + 1>>)
    /\ qProd' = [qProd EXCEPT ![p] = [pc |-> "len", n |-> @.n + 1]]
    /\ UNCHANGED <<qUseWait, qLen, qNotify, qCoord, qRead, qOut, chDone,
                   chNext, chNotify, qPanicked, cpc, closes>>
    /\ UNCHANGED queueOthers

\* Enqueue: q.len.Add(1) == 1 && q.useWait
EnqueueLen(p) ==
    /\ ~qPanicked
    /\ qProd[p].pc = "len"
    /\ qLen' = qLen + 1
    /\ qProd' = [qProd EXCEPT ![p].pc =
                   IF ShouldNotify(qLen + 1) /\ qUseWait THEN "notify" ELSE "idle"]
    /\ UNCHANGED <<qUseWait, qList, qNotify, qCoord, qRead, qOut, chDone,
                   chNext, chNotify, qPanicked, cpc, closes>>
    /\ UNCHANGED queueOthers

\* Enqueue: q.notifyCh <- true, which waits while the buffer is full and
\* panics when the channel is closed
EnqueueNotify(p) ==
    /\ ~qPanicked
    /\ qProd[p].pc = "notify"
    /\ IF chNotify = "closed"
       THEN /\ qPanicked' = TRUE
            /\ UNCHANGED <<qNotify, qProd>>
       ELSE /\ qNotify = 0
            /\ qNotify' = 1
            /\ qProd' = [qProd EXCEPT ![p].pc = "idle"]
            /\ UNCHANGED qPanicked
    /\ UNCHANGED <<qUseWait, qList, qLen, qCoord, qRead, qOut, chDone, chNext,
                   chNotify, cpc, closes>>
    /\ UNCHANGED queueOthers

\* startNotify, the outer select: <-q.done or <-q.notifyCh
CoordSelect ==
    /\ ~qPanicked
    /\ qCoord = "select"
    /\ \/ /\ chDone = "closed"
          /\ qCoord' = "exit"
          /\ UNCHANGED qNotify
       \/ /\ qNotify = 1
          /\ qNotify' = 0
          /\ qCoord' = "check"
       \/ /\ chNotify = "closed"
          /\ qNotify = 0
          /\ qCoord' = "check"
          /\ UNCHANGED qNotify
    /\ UNCHANGED <<qUseWait, qList, qLen, qProd, qRead, qOut, chDone, chNext,
                   chNotify, qPanicked, cpc, closes>>
    /\ UNCHANGED queueOthers

\* startNotify, the inner loop: for q.len.Load() > 0 { select { case
\* <-q.done: return; default: ... } }
CoordCheck ==
    /\ ~qPanicked
    /\ qCoord = "check"
    /\ qCoord' = IF qLen > 0
                 THEN (IF chDone = "closed" THEN "exit" ELSE "send")
                 ELSE "select"
    /\ UNCHANGED <<qUseWait, qList, qLen, qNotify, qProd, qRead, qOut, chDone,
                   chNext, chNotify, qPanicked, cpc, closes>>
    /\ UNCHANGED queueOthers

\* a reader calls Read(true): it waits in <-q.nextCh
ReadWait(r) ==
    /\ ~qPanicked
    /\ qUseWait
    /\ qRead[r].pc = "idle"
    /\ qRead' = [qRead EXCEPT ![r] = [pc |-> "recv", slept |-> qList = <<>>,
                                      value |-> NoValue, ok |-> FALSE]]
    /\ UNCHANGED <<qUseWait, qList, qLen, qNotify, qCoord, qProd, qOut, chDone,
                   chNext, chNotify, qPanicked, cpc, closes>>
    /\ UNCHANGED queueOthers

\* q.nextCh <- true in startNotify meets <-q.nextCh in Read
NextChHandover(r) ==
    /\ ~qPanicked
    /\ qCoord = "send"
    /\ chNext = "open"
    /\ qRead[r].pc = "recv"
    /\ qCoord' = "wait"
    /\ qRead' = [qRead EXCEPT ![r].pc = "got"]
    /\ UNCHANGED <<qUseWait, qList, qLen, qNotify, qProd, qOut, chDone, chNext,
                   chNotify, qPanicked, cpc, closes>>
    /\ UNCHANGED queueOthers

\* Read(false), or Dequeue in wait mode: the select takes <-q.nextCh only
\* if startNotify is sending at that moment
ReadNoWait(r) ==
    /\ ~qPanicked
    /\ qUseWait
    /\ qRead[r].pc = "idle"
    /\ qCoord = "send"
    /\ chNext = "open"
    /\ qCoord' = "wait"
    /\ qRead' = [qRead EXCEPT ![r] = [pc |-> "got", slept |-> FALSE,
                                      value |-> NoValue, ok |-> FALSE]]
    /\ UNCHANGED <<qUseWait, qList, qLen, qNotify, qProd, qOut, chDone, chNext,
                   chNotify, qPanicked, cpc, closes>>
    /\ UNCHANGED queueOthers

\* readSuccess: q.len.Add(-1)
ReadLen(r) ==
    /\ ~qPanicked
    /\ qRead[r].pc = "got"
    /\ qLen' = qLen - 1
    /\ qRead' = [qRead EXCEPT ![r].pc = "deq"]
    /\ UNCHANGED <<qUseWait, qList, qNotify, qCoord, qProd, qOut, chDone, chNext,
                   chNotify, qPanicked, cpc, closes>>
    /\ UNCHANGED queueOthers

\* dequeue(): the node after the head, unless that is the tail
DequeueNode(r, after) ==
    IF qList = <<>>
    THEN /\ qRead' = [qRead EXCEPT ![r].pc = after, ![r].value = NoValue,
                                   ![r].ok = FALSE]
         /\ UNCHANGED <<qList, qOut>>
    ELSE /\ qRead' = [qRead EXCEPT ![r].pc = after, ![r].value = Head(qList),
                                   ![r].ok = TRUE]
         /\ qList' = Tail(qList)
         /\ qOut' = Append(qOut, Head(qList))

\* readSuccess: return q.dequeue()
ReadDequeue(r) ==
    /\ ~qPanicked
    /\ qRead[r].pc = "deq"
    /\ DequeueNode(r, "ack")
    /\ UNCHANGED <<qUseWait, qLen, qNotify, qCoord, qProd, chDone, chNext,
                   chNotify, qPanicked, cpc, closes>>
    /\ UNCHANGED queueOthers

\* the deferred q.readValCh <- true of readSuccess meets <-q.readValCh in
\* startNotify, and Read returns
ReadValHandover(r) ==
    /\ ~qPanicked
    /\ qRead[r].pc = "ack"
    /\ qCoord = "wait"
    /\ qCoord' = "check"
    /\ qRead' = [qRead EXCEPT ![r].pc = "idle"]
    /\ UNCHANGED <<qUseWait, qList, qLen, qNotify, qProd, qOut, chDone, chNext,
                   chNotify, qPanicked, cpc, closes>>
    /\ UNCHANGED queueOthers

\* Dequeue() without wait mode: return q.dequeue()
Dequeue(r) ==
    /\ ~qPanicked
    /\ ~qUseWait
    /\ qRead[r].pc = "idle"
    /\ qLen > -MaxUnderflow
    /\ DequeueNode(r, "len")
    /\ UNCHANGED <<qUseWait, qLen, qNotify, qCoord, qProd, chDone, chNext,
                   chNotify, qPanicked, cpc, closes>>
    /\ UNCHANGED queueOthers

\* Dequeue() without wait mode: the deferred q.len.Add(-1)
DequeueLen(r) ==
    /\ ~qPanicked
    /\ qRead[r].pc = "len"
    /\ qLen' = qLen - 1
    /\ qRead' = [qRead EXCEPT ![r].pc = "idle"]
    /\ UNCHANGED <<qUseWait, qList, qNotify, qCoord, qProd, qOut, chDone, chNext,
                   chNotify, qPanicked, cpc, closes>>
    /\ UNCHANGED queueOthers

\* a queue of either mode; nothing else is in use
QueueInit ==
    /\ ManagerNew
    /\ RegIdle
    /\ NoConn
    /\ NewEventBus
    /\ NewEventsManager
    /\ NoFeed
    /\ LineIdle
    /\ FactoryIdle
    /\ NewList("queue")
    /\ \E useWait \in BOOLEAN : NewSafeQueue(useWait)

ProducerStep(p) ==
    \/ Enqueue(p)
    \/ EnqueueLen(p)
    \/ EnqueueNotify(p)

CoordStep ==
    \/ CoordSelect
    \/ CoordCheck

ReaderStep(r) ==
    \/ ReadWait(r)
    \/ NextChHandover(r)
    \/ ReadNoWait(r)
    \/ ReadLen(r)
    \/ ReadDequeue(r)
    \/ ReadValHandover(r)
    \/ Dequeue(r)
    \/ DequeueLen(r)

QueueNext ==
    \/ \E p \in Producers : ProducerStep(p)
    \/ CoordStep
    \/ \E r \in Readers : ReaderStep(r)

SpecQueue == QueueInit /\ [][QueueNext]_vars

\* the scheduler lets every goroutine that can take a step take one: a
\* producer finishes the Enqueue it has begun, startNotify runs, a reader
\* that has its token goes on
QueueFairness ==
    /\ WF_vars(CoordStep)
    /\ \A p \in Producers : WF_vars(EnqueueLen(p) \/ EnqueueNotify(p))
    /\ \A r \in Readers :
          WF_vars(NextChHandover(r) \/ ReadLen(r) \/ ReadDequeue(r)
                     \/ ReadValHandover(r))

SpecQueueLive == QueueInit /\ [][QueueNext]_vars /\ QueueFairness

----------------------------------------------------------------------------
(* Closing a safe queue.  Close calls SafeCloseChannel for done, nextCh    *)
(* and notifyCh.  SafeCloseChannel holds channelCloseMutex while it tries  *)
(* a receive and then closes the channel unless the receive showed it      *)
(* closed, so each call is one step; the receive takes a value that is     *)
(* being sent or is in the buffer.                                         *)

\* SafeCloseChannel on a channel in state ch: the state afterwards, or
\* "panic": a nil channel is never ready, so the receive takes the default
\* case, the channel counts as open and reflect's Close panics
SafeCloseChannel(ch) ==
    IF ch = "nil" THEN "panic" ELSE "closed"

\* Close(): utils.SafeCloseChannel(q.done)
CloseDone(c) ==
    /\ ~qPanicked
    /\ cpc[c] = "idle"
    /\ closes[c] < MaxCloses
    /\ closes' = [closes EXCEPT ![c] = @ + 1]
    /\ IF SafeCloseChannel(chDone) = "panic"
       THEN /\ qPanicked' = TRUE
            /\ UNCHANGED <<chDone, cpc>>
       ELSE /\ chDone' = SafeCloseChannel(chDone)
            /\ cpc' = [cpc EXCEPT ![c] = "next"]
            /\ UNCHANGED qPanicked
    /\ UNCHANGED <<qUseWait, qList, qLen, qNotify, qCoord, qProd, qRead, qOut,
                   chNext, chNotify>>
    /\ UNCHANGED queueOthers

\* Close(): utils.SafeCloseChannel(q.nextCh); its receive takes the token
\* of startNotify if that goroutine is already waiting in its send, and
\* nothing if it has left its select for the default case but not yet
\* reached the send
CloseNext(c) ==
    /\ ~qPanicked
    /\ cpc[c] = "next"
    /\ IF SafeCloseChannel(chNext) = "panic"
       THEN /\ qPanicked' = TRUE
            /\ UNCHANGED <<chNext, cpc, qCoord>>
       ELSE /\ chNext' = SafeCloseChannel(chNext)
            /\ \/ /\ chNext = "open"
                  /\ qCoord = "send"
                  /\ qCoord' = "wait"
               \/ UNCHANGED qCoord
            /\ cpc' = [cpc EXCEPT ![c] = "notify"]
            /\ UNCHANGED qPanicked
    /\ UNCHANGED <<qUseWait, qList, qLen, qNotify, qProd, qRead, qOut, chDone,
                   chNotify, closes>>
    /\ UNCHANGED queueOthers

\* Close(): utils.SafeCloseChannel(q.notifyCh); its receive takes the token
\* in the buffer
CloseNotify(c) ==
    /\ ~qPanicked
    /\ cpc[c] = "notify"
    /\ IF SafeCloseChannel(chNotify) = "panic"
       THEN /\ qPanicked' = TRUE
            /\ UNCHANGED <<chNotify, cpc, qNotify>>
       ELSE /\ chNotify' = SafeCloseChannel(chNotify)
            /\ qNotify' = IF chNotify = "open" THEN 0 ELSE qNotify
            /\ cpc' = [cpc EXCEPT ![c] = "idle"]
            /\ UNCHANGED qPanicked
    /\ UNCHANGED <<qUseWait, qList, qLen, qCoord, qProd, qRead, qOut, chDone,
                   chNext, closes>>
    /\ UNCHANGED queueOthers

\* startNotify: q.nextCh <- true when nextCh has been closed
CoordSendClosed ==
    /\ ~qPanicked
    /\ qCoord = "send"
    /\ chNext = "closed"
    /\ qPanicked' = TRUE
    /\ UNCHANGED <<qUseWait, qList, qLen, qNotify, qCoord, qProd, qRead, qOut,
                   chDone, chNext, chNotify, cpc, closes>>
    /\ UNCHANGED queueOthers

CloserStep(c) ==
    \/ CloseDone(c)
    \/ CloseNext(c)
    \/ CloseNotify(c)

\* producers, the startNotify goroutine and goroutines that close the queue
CloseQueueNext ==
    \/ \E p \in Producers : ProducerStep(p)
    \/ CoordStep
    \/ CoordSendClosed
    \/ \E c \in Closers : CloserStep(c)

SpecClose == QueueInit /\ [][CloseQueueNext]_vars

----------------------------------------------------------------------------
(* The event stream gateway.  Each request for the stream runs             *)
(* eventsHandler in a goroutine of its own: it makes an event session,     *)
(* registers a client under it, subscribes the client, waits for the end   *)
(* of the request and unregisters.  Each started client has a goroutine    *)
(* that reads its message queue.  The calls on the clients map are atomic  *)
(* (SafeMap holds its lock); the steps of cleanup are not.                 *)

\* NewEventSession at the time now with the random id rid
NewEventSession(session, now, rid) ==
    [Session |-> session, Timestamp |-> now, RandomID |-> rid]

\* NewEventsClient: a client with an open done channel and an open, empty
\* queue.  Of the event bus the record holds what concerns the client's
\* subscriber: subs, the event types whose set holds it, and hnds, the event
\* types for which it has a handler.  frames is what was written to Writer
\* and eventID the counter of ReadMsgQueue.  Three fields are history only:
\* cleanups counts the runs of cleanup that got past its check of ended,
\* want is the event types the client has asked for and not given up, and
\* steady is the published events during whose whole delivery so far the
\* client wanted their type and had not ended.
NewEventsClient(sess) ==
    [Session |-> sess, ended |-> FALSE, done |-> "open", msgQueue |-> "open",
     queue |-> <<>>, subs |-> {}, hnds |-> {}, reader |-> "new",
     eventID |-> 0, event |-> NoEvent, frames |-> <<>>,
     cleanups |-> 0, want |-> {}, steady |-> {}]

\* json.Marshal and base64.StdEncoding.EncodeToString, as the texts they
\* produce, and what a receiver of the stream does to read them
JsonMarshal(v) == <<"json", v>>
JsonUnmarshal(text) == text[2]
Base64Encode(bytes) == <<"base64", bytes>>
Base64Decode(text) == text[2]

\* sendSSEEvent: the text after "data: " for an event of the type eventType
\* with the data `data' and the id `id'
SentEvent(eventType, data, id) ==
    Base64Encode(JsonMarshal([Id |-> id, Type |-> eventType,
                              EncodedData |-> Base64Encode(JsonMarshal(data))]))

\* what a receiver reads from a frame: the event struct and its data
FrameEvent(frame) == JsonUnmarshal(Base64Decode(frame.text))
FrameData(frame) == JsonUnmarshal(Base64Decode(FrameEvent(frame).EncodedData))

\* sendSSEEvent by client o: nothing if the client has ended, else the frame
\* is written to Writer; ev is the published event it comes from, 0 for the
\* session frame
SendSSEEvent(o, eventType, data, id, ev) ==
    IF sseObjs[o].ended THEN sseObjs[o].frames
    ELSE Append(sseObjs[o].frames,
                [text |-> SentEvent(eventType, data, id), ev |-> ev])

\* the statements of cleanup, in their order
CleanupPcs == {"c_check", "c_end", "c_done", "c_queue", "c_delete", "c_unsub"}

\* the statement of cleanup on client o that follows the one at `at',
\* "ret" when cleanup returns
CleanupAfter(at, o) ==
    CASE at = "c_check" -> IF sseObjs[o].ended THEN "ret" ELSE "c_end"
      [] at = "c_end" -> "c_done"
      [] at = "c_done" -> "c_queue"
      [] at = "c_queue" -> "c_delete"
      [] at = "c_delete" -> "c_unsub"
      [] at = "c_unsub" -> "ret"

\* the client objects after the statement at `at' of cleanup on client o
CleanupObjs(at, o) ==
    CASE at = "c_end" -> [sseObjs EXCEPT ![o].ended = TRUE,
                                         ![o].cleanups = @ + 1,
                                         ![o].steady = {}]
      [] at = "c_done" ->
           [sseObjs EXCEPT ![o].done = SafeCloseChannel(sseObjs[o].done)]
      [] at = "c_queue" -> [sseObjs EXCEPT ![o].msgQueue = "closed"]
      [] at = "c_unsub" -> [sseObjs EXCEPT ![o].subs = {}, ![o].hnds = {},
                                           ![o].want = {}]
      [] OTHER -> sseObjs

\* the clients map after the statement at `at' of cleanup on client o:
\* client.manager.clients.Delete(client.Session)
CleanupClients(at, o) ==
    IF at = "c_delete"
    THEN [sseClients EXCEPT ![sseObjs[o].Session] = NoClient]
    ELSE sseClients

\* a millisecond passes
SseTick ==
    /\ ~sseCrashed
    /\ sseClock < MaxClock
    /\ sseClock' = sseClock + 1
    /\ UNCHANGED <<sseClients, sseObjs, stream>>
    /\ UNCHANGED sseOthers

\* eventsHandler up to eSess := NewEventSession(session), for a request of
\* the user session `session' that names the events `names'.  The requests
\* are taken in the order of their numbers, and the n-th of them uses one
\* of the first n sessions and random ids: which session or id comes first
\* makes no difference.
SseOpen(h, session, names) ==
    /\ ~sseCrashed
    /\ stream[h].pc = "idle"
    /\ \A g \in Streams : g[2] < h[2] => stream[g].pc # "idle"
    /\ session[2] <= h[2]
    /\ \E rid \in RandomIds :
          /\ rid[2] <= h[2]
          /\ stream' = [stream EXCEPT ![h] =
                           [NoStream EXCEPT
                               !.pc = "register",
                               !.session = session,
                               !.names = names,
                               !.eSess = NewEventSession(session, sseClock, rid)]]
    /\ UNCHANGED <<sseClients, sseObjs, sseClock>>
    /\ UNCHANGED sseOthers

\* RegisterClient: client := NewEventsClient(...); em.clients.Pop(*sess)
RegPop(h) ==
    /\ ~sseCrashed
    /\ stream[h].pc = "register"
    /\ LET old == sseClients[stream[h].eSess]
       IN  /\ sseObjs' = Append(sseObjs, NewEventsClient(stream[h].eSess))
           /\ sseClients' = [sseClients EXCEPT ![stream[h].eSess] = NoClient]
           /\ stream' = [stream EXCEPT
                            ![h].client = Len(sseObjs) + 1,
                            ![h].target = old,
                            ![h].after = "set",
                            ![h].pc = IF old # NoClient THEN "c_check"
                                      ELSE "set"]
    /\ UNCHANGED sseClock
    /\ UNCHANGED sseOthers

\* one statement of a cleanup that RegisterClient or UnregisterClient runs
\* on the client it has popped
StreamCleanup(h) ==
    /\ ~sseCrashed
    /\ stream[h].pc \in CleanupPcs
    /\ LET at == stream[h].pc
           o == stream[h].target
           next == CleanupAfter(at, o)
       IN  /\ sseObjs' = CleanupObjs(at, o)
           /\ sseClients' = CleanupClients(at, o)
           /\ stream' = [stream EXCEPT
                            ![h].pc = IF next = "ret" THEN stream[h].after
                                      ELSE next]
    /\ UNCHANGED sseClock
    /\ UNCHANGED sseOthers

\* RegisterClient: em.clients.Set(*sess, client)
RegSet(h) ==
    /\ ~sseCrashed
    /\ stream[h].pc = "set"
    /\ sseClients' = [sseClients EXCEPT ![stream[h].eSess] = stream[h].client]
    /\ stream' = [stream EXCEPT ![h].pc = "start"]
    /\ UNCHANGED <<sseObjs, sseClock>>
    /\ UNCHANGED sseOthers

\* RegisterClient: client.Start(), which clears ended and starts the
\* goroutine of ReadMsgQueue
RegStart(h) ==
    /\ ~sseCrashed
    /\ stream[h].pc = "start"
    /\ sseObjs' = [sseObjs EXCEPT ![stream[h].client].ended = FALSE,
                                  ![stream[h].client].reader = "hello"]
    /\ stream' = [stream EXCEPT ![h].pc = "subscribe"]
    /\ UNCHANGED <<sseClients, sseClock>>
    /\ UNCHANGED sseOthers

\* eventsHandler: client.SubscribeToEvent for the names of the request
SseSubscribe(h) ==
    /\ ~sseCrashed
    /\ stream[h].pc = "subscribe"
    /\ LET o == stream[h].client
       IN  sseObjs' = IF sseObjs[o].ended THEN sseObjs
                      ELSE [sseObjs EXCEPT
                              ![o].hnds = @ \cup stream[h].names,
                              ![o].subs = @ \cup stream[h].names,
                              ![o].want = @ \cup stream[h].names]
    /\ stream' = [stream EXCEPT ![h].pc = "wait"]
    /\ UNCHANGED <<sseClients, sseClock>>
    /\ UNCHANGED sseOthers

\* eventsHandler: <-r.Context().Done() returns
SseCtxDone(h) ==
    /\ ~sseCrashed
    /\ stream[h].pc = "wait"
    /\ stream' = [stream EXCEPT ![h].pc = "unregister"]
    /\ UNCHANGED <<sseClients, sseObjs, sseClock>>
    /\ UNCHANGED sseOthers

\* UnregisterClient: em.clients.Pop(*sess), and return if there is none
UnregPop(h) ==
    /\ ~sseCrashed
    /\ stream[h].pc = "unregister"
    /\ LET old == sseClients[stream[h].eSess]
       IN  /\ sseClients' = [sseClients EXCEPT ![stream[h].eSess] = NoClient]
           /\ stream' = [stream EXCEPT
                            ![h].target = old,
                            ![h].after = "end",
                            ![h].pc = IF old # NoClient THEN "c_check"
                                      ELSE "end"]
    /\ UNCHANGED <<sseObjs, sseClock>>
    /\ UNCHANGED sseOthers

\* a ReadMsgQueue that goes to its loop without the initial sendSSEEvent
ReaderNoHello(o) ==
    /\ ~sseCrashed
    /\ sseObjs[o].reader = "hello"
    /\ sseObjs' = [sseObjs EXCEPT ![o].reader = "loop"]
    /\ UNCHANGED <<sseClients, sseClock, stream>>
    /\ UNCHANGED sseOthers

\* ReadMsgQueue of client o: the initial sendSSEEvent with the session
ReaderHello(o) ==
    /\ ~sseCrashed
    /\ sseObjs[o].reader = "hello"
    /\ sseObjs' = [sseObjs EXCEPT
                      ![o].frames = SendSSEEvent(o, EVENT_TYPE_SESSION_ID,
                                                 sseObjs[o].Session, 0, 0),
                      ![o].reader = "loop"]
    /\ UNCHANGED <<sseClients, sseClock, stream>>
    /\ UNCHANGED sseOthers

\* ReadMsgQueue of client o: for !client.ended.Load()
ReaderLoop(o) ==
    /\ ~sseCrashed
    /\ sseObjs[o].reader = "loop"
    /\ sseObjs' = [sseObjs EXCEPT
                      ![o].reader = IF sseObjs[o].ended THEN "c_check"
                                    ELSE "read"]
    /\ UNCHANGED <<sseClients, sseClock, stream>>
    /\ UNCHANGED sseOthers

\* ReadMsgQueue of client o: Read returns false because done is closed
ReaderReturn(o) ==
    /\ ~sseCrashed
    /\ sseObjs[o].reader = "read"
    /\ sseObjs[o].done = "closed"
    /\ sseObjs' = [sseObjs EXCEPT ![o].reader = "c_check"]
    /\ UNCHANGED <<sseClients, sseClock, stream>>
    /\ UNCHANGED sseOthers

\* ReadMsgQueue of client o: Read receives from the closed nextCh of the
\* closed queue, and readSuccess waits in q.readValCh <- true for the
\* startNotify goroutine, which has returned
ReaderStuck(o) ==
    /\ ~sseCrashed
    /\ sseObjs[o].reader = "read"
    /\ sseObjs[o].msgQueue = "closed"
    /\ sseObjs' = [sseObjs EXCEPT ![o].reader = "stuck"]
    /\ UNCHANGED <<sseClients, sseClock, stream>>
    /\ UNCHANGED sseOthers

\* ReadMsgQueue of client o: Read returns the event at the head of the queue
ReaderRead(o) ==
    /\ ~sseCrashed
    /\ sseObjs[o].reader = "read"
    /\ sseObjs[o].msgQueue = "open"
    /\ sseObjs[o].queue # <<>>
    /\ sseObjs' = [sseObjs EXCEPT ![o].reader = "send",
                                  ![o].event = Head(sseObjs[o].queue),
                                  ![o].queue = Tail(@),
                                  ![o].eventID = @ + 1]
    /\ UNCHANGED <<sseClients, sseClock, stream>>
    /\ UNCHANGED sseOthers

\* ReadMsgQueue of client o: sendSSEEvent for the event it has read
ReaderSend(o) ==
    /\ ~sseCrashed
    /\ sseObjs[o].reader = "send"
    /\ LET event == sseObjs[o].event
       IN  sseObjs' = [sseObjs EXCEPT
                          ![o].frames = SendSSEEvent(o, event.Type, event.Data,
                                                     sseObjs[o].eventID,
                                                     event.ev),
                          ![o].event = NoEvent,
                          ![o].reader = "loop"]
    /\ UNCHANGED <<sseClients, sseClock, stream>>
    /\ UNCHANGED sseOthers

\* one statement of the deferred cleanup of ReadMsgQueue of client o
ReaderCleanup(o) ==
    /\ ~sseCrashed
    /\ sseObjs[o].reader \in CleanupPcs
    /\ LET at == sseObjs[o].reader
           next == CleanupAfter(at, o)
       IN  /\ sseObjs' = [CleanupObjs(at, o) EXCEPT
                             ![o].reader = IF next = "ret" THEN "exited"
                                           ELSE next]
           /\ sseClients' = CleanupClients(at, o)
    /\ UNCHANGED <<sseClock, stream>>
    /\ UNCHANGED sseOthers

SseInit ==
    /\ ManagerNew
    /\ RegIdle
    /\ NoConn
    /\ NewEventBus
    /\ NewSafeQueue(FALSE)
    /\ NewEventsManager
    /\ NoFeed
    /\ LineIdle
    /\ FactoryIdle
    /\ NewList("queue")

StreamStep(h) ==
    \/ \E session \in UserSessions, names \in SUBSET SseEvents :
          SseOpen(h, session, names)
    \/ RegPop(h)
    \/ StreamCleanup(h)
    \/ RegSet(h)
    \/ RegStart(h)
    \/ SseSubscribe(h)
    \/ SseCtxDone(h)
    \/ UnregPop(h)

ClientReaderStep(o) ==
    \/ ReaderHello(o)
    \/ ReaderLoop(o)
    \/ ReaderReturn(o)
    \/ ReaderStuck(o)
    \/ ReaderCleanup(o)

\* the requests for the event stream, the goroutines of the clients and
\* the clock
SseNext ==
    \/ SseTick
    \/ \E h \in Streams : StreamStep(h)
    \/ \E o \in 1..Len(sseObjs) : ClientReaderStep(o)

SpecSse == SseInit /\ [][SseNext]_vars

----------------------------------------------------------------------------
(* Events on their way to a stream.  Publish looks the event type's        *)
(* subscribers up and starts a goroutine for each: client.HandleEvent,     *)
(* which puts the event into the client's queue, from where ReadMsgQueue   *)
(* writes it to the stream.  The bus is taken here by what its calls do    *)
(* to the subscriber of one client: Subscribe and Unsubscribe are one      *)
(* step each, Publish reads the set of the event type first and looks the  *)
(* handler of each subscriber up afterwards.  The limiter of the bus holds *)
(* EVENT_BUS_BUFFER_SIZE goroutines, which the publishes here never reach. *)

\* the client objects
Clients == 1..Len(sseObjs)

\* Publish(event) begins: eb.subscriptions.Get(eventType) and Iterate
FeedPublish(eventType, data) ==
    /\ ~sseCrashed
    /\ ssePub.pending = {}
    /\ Len(ssePublished) < MaxSsePublishes
    /\ data[2] <= Len(ssePublished) + 1
    /\ LET event == [Type |-> eventType, Data |-> data,
                     ev |-> Len(ssePublished) + 1]
       IN  /\ ssePublished' = Append(ssePublished, event)
           /\ ssePub' = [event |-> event,
                         pending |-> {o \in Clients :
                                         eventType \in sseObjs[o].subs}]
           /\ sseObjs' = [o \in Clients |->
                            IF eventType \in sseObjs[o].want
                               /\ ~sseObjs[o].ended
                            THEN [sseObjs[o] EXCEPT !.steady = @ \cup {event.ev}]
                            ELSE sseObjs[o]]
    /\ UNCHANGED <<sseClients, sseClock, stream, sseCalls, ssePosts,
                   sseCrashed>>
    /\ UNCHANGED feedOthers

\* Publish: the range loop receives the subscriber of client o and looks
\* its handler up; it starts the handler's goroutine, or the goroutine that
\* unsubscribes a subscriber without a handler
FeedLookup(o) ==
    /\ ~sseCrashed
    /\ o \in ssePub.pending
    /\ ssePub' = [ssePub EXCEPT !.pending = @ \ {o}]
    /\ sseCalls' = sseCalls \cup
          {[kind |-> IF ssePub.event.Type \in sseObjs[o].hnds THEN "handle"
                     ELSE "heal",
            client |-> o, event |-> ssePub.event]}
    /\ UNCHANGED <<sseClients, sseObjs, sseClock, stream, ssePublished,
                   ssePosts, sseCrashed>>
    /\ UNCHANGED feedOthers

\* HandleEvent: the check of ended
FeedHandleEvent(goroutine) ==
    /\ ~sseCrashed
    /\ goroutine \in sseCalls
    /\ goroutine.kind = "handle"
    /\ sseCalls' = IF sseObjs[goroutine.client].ended THEN sseCalls \ {goroutine}
                   ELSE (sseCalls \ {goroutine})
                           \cup {[goroutine EXCEPT !.kind = "enqueue"]}
    /\ UNCHANGED <<sseClients, sseObjs, sseClock, stream, ssePublished,
                   ssePub, ssePosts, sseCrashed>>
    /\ UNCHANGED feedOthers

\* HandleEvent: client.msgQueue.Enqueue(event).  On a closed queue the send
\* on notifyCh, which Enqueue makes for the first value of an empty queue,
\* panics.
FeedEnqueue(goroutine) ==
    /\ ~sseCrashed
    /\ goroutine \in sseCalls
    /\ goroutine.kind = "enqueue"
    /\ sseCalls' = sseCalls \ {goroutine}
    /\ LET o == goroutine.client
       IN  IF sseObjs[o].msgQueue = "closed" /\ sseObjs[o].queue = <<>>
           THEN /\ sseCrashed' = TRUE
                /\ UNCHANGED sseObjs
           ELSE /\ sseObjs' = [sseObjs EXCEPT
                                  ![o].queue = Append(@, goroutine.event)]
                /\ UNCHANGED sseCrashed
    /\ UNCHANGED <<sseClients, sseClock, stream, ssePublished, ssePub,
                   ssePosts>>
    /\ UNCHANGED feedOthers

\* go eb.Unsubscribe(eventType, &sub) for a subscriber without a handler
FeedHeal(goroutine) ==
    /\ ~sseCrashed
    /\ goroutine \in sseCalls
    /\ goroutine.kind = "heal"
    /\ sseCalls' = sseCalls \ {goroutine}
    /\ sseObjs' = [sseObjs EXCEPT
                      ![goroutine.client].subs = @ \ {goroutine.event.Type},
                      ![goroutine.client].hnds = @ \ {goroutine.event.Type}]
    /\ UNCHANGED <<sseClients, sseClock, stream, ssePublished, ssePub,
                   ssePosts, sseCrashed>>
    /\ UNCHANGED feedOthers

\* GetClient: the client registered under the event session, unless it has
\* ended
GetClient(sess) ==
    IF sseClients[sess] = NoClient \/ sseObjs[sseClients[sess]].ended
    THEN NoClient
    ELSE sseClients[sess]

\* eventsSubscribeHandler for the event session of client o and the event
\* type eventType
PostSubscribe(o, eventType) ==
    /\ ~sseCrashed
    /\ ssePosts < MaxPosts
    /\ GetClient(sseObjs[o].Session) = o
    /\ ssePosts' = ssePosts + 1
    /\ sseObjs' = [sseObjs EXCEPT ![o].hnds = @ \cup {eventType},
                                  ![o].subs = @ \cup {eventType},
                                  ![o].want = @ \cup {eventType}]
    /\ UNCHANGED <<sseClients, sseClock, stream, ssePublished, ssePub,
                   sseCalls, sseCrashed>>
    /\ UNCHANGED feedOthers

\* eventsUnsubscribeHandler for the event session of client o and the event
\* type eventType
PostUnsubscribe(o, eventType) ==
    /\ ~sseCrashed
    /\ ssePosts < MaxPosts
    /\ GetClient(sseObjs[o].Session) = o
    /\ ssePosts' = ssePosts + 1
    /\ sseObjs' = [sseObjs EXCEPT ![o].hnds = @ \ {eventType},
                                  ![o].subs = @ \ {eventType},
                                  ![o].want = @ \ {eventType},
                                  ![o].steady = {}]
    /\ UNCHANGED <<sseClients, sseClock, stream, ssePublished, ssePub,
                   sseCalls, sseCrashed>>
    /\ UNCHANGED feedOthers

PublisherStep ==
    \/ \E eventType \in SseEvents, data \in Payloads :
          FeedPublish(eventType, data)
    \/ \E o \in Clients : FeedLookup(o)

CallStep(goroutine) ==
    \/ FeedHandleEvent(goroutine)
    \/ FeedEnqueue(goroutine)
    \/ FeedHeal(goroutine)

PostStep(o) ==
    \/ \E eventType \in SseEvents : PostSubscribe(o, eventType)
    \/ \E eventType \in SseEvents : PostUnsubscribe(o, eventType)

FeedReaderStep(o) ==
    \/ ClientReaderStep(o)
    \/ ReaderRead(o)
    \/ ReaderSend(o)

\* one stream, the requests that change its subscriptions, a publisher and
\* the goroutines they start; a panic ends the process
FeedNext ==
    \/ StreamStep(FirstStream)
    \/ \E o \in Clients : FeedReaderStep(o)
    \/ \E o \in Clients : PostStep(o)
    \/ PublisherStep
    \/ \E goroutine \in sseCalls : CallStep(goroutine)

SpecFeed == SseInit /\ [][FeedNext]_vars

----------------------------------------------------------------------------
(* The lines of a connection after its registration, and SendMessage.      *)
(* handleConnection reads a line and handles it before it reads the next;  *)
(* TRANSFER hands the socket to the goroutine of the robot's handler and   *)
(* waits on a reply channel, every line that is no command is forwarded.   *)

\* BaseRobotHandler.SendMsg: it RECEIVES from MsgChan, so it waits while
\* the buffer is empty, and it returns an error in every case
BaseSendMsg(ch, msg) ==
    IF ch.nil
    THEN [waits |-> FALSE, ch |-> ch, err |-> ErrMsgChannelUninitialized]
    ELSE IF ch.buf = <<>>
    THEN [waits |-> TRUE, ch |-> ch, err |-> ErrNone]
    ELSE [waits |-> FALSE, ch |-> [ch EXCEPT !.buf = Tail(@)], err |-> ErrMsgUnknownType]

\* the SendMsg that a robot-specific handler is told to provide: a send
\* that does not wait, with an error when the buffer is full
QueueSendMsg(ch, msg) ==
    IF ch.nil
    THEN [waits |-> FALSE, ch |-> ch, err |-> ErrMsgChannelUninitialized]
    ELSE IF Len(ch.buf) < MsgChanCap
    THEN [waits |-> FALSE, ch |-> [ch EXCEPT !.buf = Append(@, msg)], err |-> ErrNone]
    ELSE [waits |-> FALSE, ch |-> ch, err |-> ErrQueueFull]

SendMsg(kind, ch, msg) ==
    IF kind = "base" THEN BaseSendMsg(ch, msg) ELSE QueueSendMsg(ch, msg)

\* RobotManager.SendMessage up to the call of SendMsg: the handler that is
\* given the message, or the error returned without one
SendMessage(d, i) ==
    IF d # NoId /\ i # NoId
    THEN IF Lookup(robotsByID, d) # Lookup(robotsByIP, i)
         THEN [h |-> NoHandler, err |-> ErrRobotMismatch]
         ELSE IF Lookup(robotsByID, d) = NoHandler
              THEN \* SendMsg on a nil interface
                   [h |-> NoHandler, err |-> Panic]
              ELSE [h |-> Lookup(robotsByID, d), err |-> ErrNone]
    ELSE IF d # NoId
    THEN IF Lookup(robotsByID, d) # NoHandler
         THEN [h |-> Lookup(robotsByID, d), err |-> ErrNone]
         ELSE [h |-> NoHandler, err |-> ErrRobotNotFound]
    ELSE IF i # NoId
    THEN IF Lookup(robotsByIP, i) # NoHandler
         THEN [h |-> Lookup(robotsByIP, i), err |-> ErrNone]
         ELSE [h |-> NoHandler, err |-> ErrRobotNotFound]
    ELSE [h |-> NoHandler, err |-> ErrInvalidInput]

\* validateRobot: the handler registered for the address, or nil
validateRobot(i) ==
    IF GetHandler(NoId, i).err # ErrNone THEN NoHandler ELSE GetHandler(NoId, i).h

NewTCPMessage(word, n, reply) == [Msg |-> word, line |-> n, reply |-> reply]

\* scanner.Scan() returns a line
LineScan(word) ==
    /\ lnLoop.pc = "scan"
    /\ lnLoop.n < MaxLines
    /\ lnLoop' = [lnLoop EXCEPT !.pc = "process", !.n = @ + 1,
                                !.msg = NewTCPMessage(word, lnLoop.n + 1, word = "TRANSFER")]
    /\ UNCHANGED <<lnKind, lnMsgChan, lnReply, lnHandler, lnOut, lnCaller>>
    /\ UNCHANGED lineOthers

\* scanner.Scan() returns false: the connection is closed
LineEof ==
    /\ lnLoop.pc = "scan"
    /\ lnLoop' = [lnLoop EXCEPT !.pc = "eof"]
    /\ UNCHANGED <<lnKind, lnMsgChan, lnReply, lnHandler, lnOut, lnCaller>>
    /\ UNCHANGED lineOthers

\* handleTransfer up to SendMsg: the handler of the address
handleTransfer ==
    /\ lnLoop.pc = "process"
    /\ lnLoop.msg.Msg = "TRANSFER"
    /\ IF GetHandler(NoId, LineIp).err # ErrNone
       THEN /\ lnOut' = Append(lnOut, "ERROR NO_ROBOT_REGISTERED_WITH_IP")
            /\ lnLoop' = [lnLoop EXCEPT !.pc = "scan", !.msg = NoMsg]
       ELSE /\ lnOut' = lnOut
            /\ lnLoop' = [lnLoop EXCEPT !.pc = "sendmsg"]
    /\ UNCHANGED <<lnKind, lnMsgChan, lnReply, lnHandler, lnCaller>>
    /\ UNCHANGED lineOthers

\* handleDefault up to SendMsg
handleDefault ==
    /\ lnLoop.pc = "process"
    /\ lnLoop.msg.Msg # "TRANSFER"
    /\ IF validateRobot(LineIp) = NoHandler
       THEN /\ lnOut' = Append(lnOut, "ERROR NO_ROBOT_REGISTERED_WITH_IP")
            /\ lnLoop' = [lnLoop EXCEPT !.pc = "scan", !.msg = NoMsg]
       ELSE /\ lnOut' = lnOut
            /\ lnLoop' = [lnLoop EXCEPT !.pc = "sendmsg"]
    /\ UNCHANGED <<lnKind, lnMsgChan, lnReply, lnHandler, lnCaller>>
    /\ UNCHANGED lineOthers

\* SendMsg returns to handleTransfer or to handleDefault
LineSendMsg ==
    /\ lnLoop.pc = "sendmsg"
    /\ LET r == SendMsg(lnKind, lnMsgChan, lnLoop.msg) IN
       /\ ~r.waits
       /\ lnMsgChan' = r.ch
       /\ IF lnLoop.msg.Msg # "TRANSFER"
          THEN \* handleDefault drops the error
               /\ lnOut' = lnOut
               /\ lnLoop' = [lnLoop EXCEPT !.pc = "scan", !.msg = NoMsg]
          ELSE IF r.err # ErrNone
          THEN /\ lnOut' = Append(lnOut, "ERROR SENDING_MESSAGE_TO_ROBOT")
               /\ lnLoop' = [lnLoop EXCEPT !.pc = "scan", !.msg = NoMsg]
          ELSE /\ lnOut' = lnOut
               /\ lnLoop' = [lnLoop EXCEPT !.pc = "reply"]
    /\ UNCHANGED <<lnKind, lnReply, lnHandler, lnCaller>>
    /\ UNCHANGED lineOthers

\* handleTransfer returns at once, without the receive from replyChan
ReplyNotAwaited(n) == TRUE

\* a value is in the reply channel of the line
ReplyReady(n) == lnReply[n] > 0

\* handleTransfer: <-replyChan, and the loop goes on to the next line
LineResume ==
    /\ lnLoop.pc = "reply"
    /\ ReplyReady(lnLoop.n)
    /\ lnReply' = [lnReply EXCEPT ![lnLoop.n] = 0]
    /\ lnLoop' = [lnLoop EXCEPT !.pc = "scan", !.msg = NoMsg, !.resumed = @ + 1]
    /\ UNCHANGED <<lnKind, lnMsgChan, lnHandler, lnOut, lnCaller>>
    /\ UNCHANGED lineOthers

\* the goroutine of the handler takes a message from MsgChan
HandlerReceive ==
    /\ lnKind = "queue"
    /\ lnHandler.pc = "idle"
    /\ ~lnMsgChan.nil
    /\ lnMsgChan.buf # <<>>
    /\ lnMsgChan' = [lnMsgChan EXCEPT !.buf = Tail(@)]
    /\ lnHandler' = IF Head(lnMsgChan.buf).reply
                    THEN [pc |-> "owner", msg |-> Head(lnMsgChan.buf)]
                    ELSE [pc |-> "idle", msg |-> NoMsg]
    /\ UNCHANGED <<lnLoop, lnKind, lnReply, lnOut, lnCaller>>
    /\ UNCHANGED lineOthers

\* the goroutine is done with the socket: it writes to the reply channel
HandlerReply ==
    /\ lnHandler.pc = "owner"
    /\ lnReply' = [lnReply EXCEPT ![lnHandler.msg.line] = 1]
    /\ lnHandler' = [pc |-> "idle", msg |-> NoMsg]
    /\ UNCHANGED <<lnLoop, lnKind, lnMsgChan, lnOut, lnCaller>>
    /\ UNCHANGED lineOthers

\* SendMessage is called with a device id, an ip, or both
CallSendMessage(d, i) ==
    /\ lnCaller.pc \in {"idle", "done"}
    /\ lnCaller.n < MaxSends
    /\ LET t == SendMessage(d, i) IN
       lnCaller' = IF t.err # ErrNone
                   THEN [pc |-> "done", msg |-> NoMsg, res |-> t.err, n |-> lnCaller.n + 1]
                   ELSE [pc |-> "sendmsg", msg |-> NewTCPMessage("api", 0, FALSE),
                         res |-> ErrNone, n |-> lnCaller.n + 1]
    /\ UNCHANGED <<lnLoop, lnKind, lnMsgChan, lnReply, lnHandler, lnOut>>
    /\ UNCHANGED lineOthers

\* SendMsg returns to SendMessage, which returns its error
CallerSendMsg ==
    /\ lnCaller.pc = "sendmsg"
    /\ LET r == SendMsg(lnKind, lnMsgChan, lnCaller.msg) IN
       /\ ~r.waits
       /\ lnMsgChan' = r.ch
       /\ lnCaller' = [lnCaller EXCEPT !.pc = "done", !.res = r.err]
    /\ UNCHANGED <<lnLoop, lnKind, lnReply, lnHandler, lnOut>>
    /\ UNCHANGED lineOthers

\* a connection after its REGISTER line: the robot of the address is in the
\* registry or was removed from it; its handler has a message channel or none
LineInit ==
    /\ \E registered \in BOOLEAN :
        /\ robotsByID = [d \in DeviceIds |->
                            IF registered /\ d = LineDev THEN LineHandler ELSE NoHandler]
        /\ robotsByIP = [i \in Ips |->
                            IF registered /\ i = LineIp THEN LineHandler ELSE NoHandler]
    /\ mu = NoThread
    /\ closed = {}
    /\ nextHandler = 2
    /\ panicked = FALSE
    /\ pc = [t \in Threads |-> "idle"]
    /\ call = [t \in Threads |-> NoCall]
    /\ RegIdle
    /\ NoConn
    /\ NewEventBus
    /\ NewSafeQueue(FALSE)
    /\ NewEventsManager
    /\ NoFeed
    /\ FactoryIdle
    /\ NewList("queue")
    /\ lnLoop = [pc |-> "scan", n |-> 0, msg |-> NoMsg, resumed |-> 0]
    /\ lnKind \in {"base", "queue"}
    /\ lnMsgChan \in {NilChan, MakeChan}
    /\ lnReply = [n \in 1..MaxLines |-> 0]
    /\ lnHandler = [pc |-> "idle", msg |-> NoMsg]
    /\ lnOut = <<>>
    /\ lnCaller = [pc |-> "idle", msg |-> NoMsg, res |-> ErrNone, n |-> 0]

LineNext ==
    \/ \E word \in LineWords : LineScan(word)
    \/ LineEof
    \/ handleTransfer
    \/ handleDefault
    \/ LineSendMsg
    \/ LineResume
    \/ HandlerReceive
    \/ HandlerReply
    \/ \E d \in DeviceIds \cup {NoId}, i \in {LineIp, "10.0.0.8", NoId} : CallSendMessage(d, i)
    \/ CallerSendMsg

SpecLine == LineInit /\ [][LineNext]_vars

----------------------------------------------------------------------------
(* The registry of robot types: AddRobotType, called by the init function  *)
(* of each robot module, and InitConfig, called by main.                   *)

\* DebugPanic: log.Panicf in debug mode; otherwise it logs and returns
DebugPanic(debug) == IF debug THEN "panic" ELSE "logged"

\* the checks of AddRobotType: "panic" if a DebugPanic call panics, else
\* the function goes on to the assignment
AddRobotTypeChecks(factory, ty, newFunc) ==
    IF factory[ty] # NoFunc /\ DebugPanic(DEBUG_MODE) = "panic" THEN "panic"
    ELSE IF newFunc = NilFunc /\ DebugPanic(DEBUG_MODE) = "panic" THEN "panic"
    ELSE "assign"

AddRobotType(ty, newFunc) ==
    /\ ~factoryPanicked
    /\ factoryCalls < MaxAddTypes
    /\ factoryCalls' = factoryCalls + 1
    /\ IF AddRobotTypeChecks(robotFactory, ty, newFunc) = "panic"
       THEN /\ factoryPanicked' = TRUE
            /\ UNCHANGED <<robotFactory, factoryFirst>>
       ELSE /\ robotFactory' = [robotFactory EXCEPT ![ty] = newFunc]
            /\ factoryFirst' = IF factoryFirst[ty] = NoFunc
                               THEN [factoryFirst EXCEPT ![ty] = newFunc]
                               ELSE factoryFirst
            /\ UNCHANGED factoryPanicked
    /\ UNCHANGED <<DEBUG_MODE, configDone>>
    /\ UNCHANGED factoryOthers

\* InitConfig: DEBUG_MODE = os.Getenv("DEBUG") == "true"
InitConfig(debug) ==
    /\ ~factoryPanicked
    /\ ~configDone
    /\ configDone' = TRUE
    /\ DEBUG_MODE' = debug
    /\ UNCHANGED <<robotFactory, factoryFirst, factoryCalls, factoryPanicked>>
    /\ UNCHANGED factoryOthers

FactoryInit ==
    /\ ManagerNew
    /\ RegIdle
    /\ NoConn
    /\ LibIdle

FactoryNext ==
    \/ \E ty \in RobotTypeTags, f \in FactoryFuncs \cup {NilFunc} : AddRobotType(ty, f)
    \/ \E debug \in BOOLEAN : InitConfig(debug)

SpecFactory == FactoryInit /\ [][FactoryNext]_vars

----------------------------------------------------------------------------
(* The doubly linked nodes under a queue and under a set.  A call on a     *)
(* node starts a goroutine (manageLeftLocks, manageRightLocks) that locks  *)
(* one side of the node and the facing side of its neighbour, sends on a   *)
(* channel when it has both, and unlocks when the call closes `done`.      *)

\* manageLeftLocks locks the rightLock of the left neighbour first
LeftFirstLockOwn == "own"

LeftFirstLock == "prev"

\* where manageLeftLocks begins and how it goes on
LeftStart == IF LeftFirstLock = "prev" THEN "l_read" ELSE "l_own"
AfterPrev(first) == IF first = "prev" THEN "l_own" ELSE "send"
AfterOwn(first) == IF first = "prev" THEN "send" ELSE "l_read"

\* go func() of manageRightLocks / manageLeftLocks for node n
ManageRight(n) == [pc |-> "r_own", n |-> n, l |-> NilNode, held |-> {}, first |-> ""]
ManageLeft(n) == [pc |-> LeftStart, n |-> n, l |-> NilNode, held |-> {}, first |-> LeftFirstLock]

\* manageRightLocks: n.rightLock.Lock()
RightLockOwn(w, k) ==
    /\ ~llPanicked
    /\ llG[w][k].pc = "r_own"
    /\ <<"R", llG[w][k].n>> \notin llLocked
    /\ llLocked' = llLocked \cup {<<"R", llG[w][k].n>>}
    /\ llG' = [llG EXCEPT ![w][k].pc = "r_read", ![w][k].held = @ \cup {<<"R", llG[w][k].n>>}]
    /\ UNCHANGED <<llKind, llList, llW, llWriteMu, llPanicked>>
    /\ UNCHANGED nodeOthers

\* manageRightLocks: if n.next != nil { r := n.next
RightReadNext(w, k) ==
    /\ ~llPanicked
    /\ llG[w][k].pc = "r_read"
    /\ llG' = [llG EXCEPT ![w][k].l = llList.next[llG[w][k].n],
                          ![w][k].pc = IF llList.next[llG[w][k].n] = NilNode
                                       THEN "send" ELSE "r_next"]
    /\ UNCHANGED <<llKind, llList, llLocked, llW, llWriteMu, llPanicked>>
    /\ UNCHANGED nodeOthers

\* manageRightLocks: r.leftLock.Lock()
RightLockNext(w, k) ==
    /\ ~llPanicked
    /\ llG[w][k].pc = "r_next"
    /\ <<"L", llG[w][k].l>> \notin llLocked
    /\ llLocked' = llLocked \cup {<<"L", llG[w][k].l>>}
    /\ llG' = [llG EXCEPT ![w][k].pc = "send", ![w][k].held = @ \cup {<<"L", llG[w][k].l>>}]
    /\ UNCHANGED <<llKind, llList, llW, llWriteMu, llPanicked>>
    /\ UNCHANGED nodeOthers

\* manageLeftLocks: if n.prev != nil { l := n.prev (read with no lock held)
LeftReadPrev(w, k) ==
    /\ ~llPanicked
    /\ llG[w][k].pc = "l_read"
    /\ llG' = [llG EXCEPT ![w][k].l = llList.prev[llG[w][k].n],
                          ![w][k].pc = IF llList.prev[llG[w][k].n] = NilNode
                                       THEN AfterPrev(llG[w][k].first) ELSE "l_prev"]
    /\ UNCHANGED <<llKind, llList, llLocked, llW, llWriteMu, llPanicked>>
    /\ UNCHANGED nodeOthers

\* manageLeftLocks: l.rightLock.Lock()
LeftLockPrev(w, k) ==
    /\ ~llPanicked
    /\ llG[w][k].pc = "l_prev"
    /\ <<"R", llG[w][k].l>> \notin llLocked
    /\ llLocked' = llLocked \cup {<<"R", llG[w][k].l>>}
    /\ llG' = [llG EXCEPT ![w][k].pc = "l_check", ![w][k].held = @ \cup {<<"R", llG[w][k].l>>}]
    /\ UNCHANGED <<llKind, llList, llW, llWriteMu, llPanicked>>
    /\ UNCHANGED nodeOthers

\* manageLeftLocks: for l != nil && l != n.prev { l.rightLock.Unlock();
\* l = n.prev; l.rightLock.Lock() }
LeftCheckPrev(w, k) ==
    /\ ~llPanicked
    /\ llG[w][k].pc = "l_check"
    /\ LET g == llG[w][k]
           now == llList.prev[g.n]
       IN IF g.l = now
          THEN /\ llG' = [llG EXCEPT ![w][k].pc = AfterPrev(g.first)]
               /\ UNCHANGED <<llLocked, llPanicked>>
          ELSE /\ llLocked' = llLocked \ {<<"R", g.l>>}
               /\ llG' = [llG EXCEPT ![w][k].held = @ \ {<<"R", g.l>>},
                                     ![w][k].l = now,
                                     ![w][k].pc = "l_prev"]
               /\ llPanicked' = (now = NilNode)
    /\ UNCHANGED <<llKind, llList, llW, llWriteMu>>
    /\ UNCHANGED nodeOthers

\* manageLeftLocks: n.leftLock.Lock()
LeftLockOwn(w, k) ==
    /\ ~llPanicked
    /\ llG[w][k].pc = "l_own"
    /\ <<"L", llG[w][k].n>> \notin llLocked
    /\ llLocked' = llLocked \cup {<<"L", llG[w][k].n>>}
    /\ llG' = [llG EXCEPT ![w][k].pc = AfterOwn(llG[w][k].first),
                          ![w][k].held = @ \cup {<<"L", llG[w][k].n>>}]
    /\ UNCHANGED <<llKind, llList, llW, llWriteMu, llPanicked>>
    /\ UNCHANGED nodeOthers

\* <-done has returned: the deferred Unlock calls
LockRelease(w, k) ==
    /\ ~llPanicked
    /\ llG[w][k].pc = "release"
    /\ llLocked' = llLocked \ llG[w][k].held
    /\ llG' = [llG EXCEPT ![w][k] = NoLockG]
    /\ UNCHANGED <<llKind, llList, llW, llWriteMu, llPanicked>>
    /\ UNCHANGED nodeOthers

\* both lock goroutines of the last call of w have ended
SlotsFree(w) == \A k \in Slots : llG[w][k].pc = "off"

CanCall(w) ==
    /\ ~llPanicked
    /\ llW[w].pc = "idle"
    /\ llW[w].ops < MaxNodeOps
    /\ SlotsFree(w)

\* Node.AddLeft / Node.AddRight: the new node between a and b
LinkBetween(list, a, b) ==
    LET new == list.used + 1 IN
    [list EXCEPT !.used = new,
                 !.next = IF a = NilNode THEN [@ EXCEPT ![new] = b]
                          ELSE [@ EXCEPT ![new] = b, ![a] = new],
                 !.prev = IF b = NilNode THEN [@ EXCEPT ![new] = a]
                          ELSE [@ EXCEPT ![new] = a, ![b] = new]]

\* Node._RemoveSelf
RemoveSelfLinks(list, n) ==
    [list EXCEPT !.next = IF list.prev[n] = NilNode THEN @
                          ELSE [@ EXCEPT ![list.prev[n]] = list.next[n]],
                 !.prev = IF list.next[n] = NilNode THEN @
                          ELSE [@ EXCEPT ![list.next[n]] = list.prev[n]]]

\* Enqueue: q.tail.AddLeft(value) starts manageLeftLocks
StartEnqueue(w) ==
    /\ CanCall(w)
    /\ llKind = "queue"
    /\ llG' = [llG EXCEPT ![w][1] = ManageLeft(LlTail)]
    /\ llW' = [llW EXCEPT ![w] = [pc |-> "al_wait", n |-> LlTail, ops |-> @.ops + 1]]
    /\ UNCHANGED <<llKind, llList, llLocked, llWriteMu, llPanicked>>
    /\ UNCHANGED nodeOthers

\* AddLeft: <-ch, the links of the new node, the deferred close of done
EnqueueLink(w) ==
    /\ ~llPanicked
    /\ llW[w].pc = "al_wait"
    /\ llG[w][1].pc = "send"
    /\ llList' = LinkBetween(llList, llList.prev[LlTail], LlTail)
    /\ llG' = [llG EXCEPT ![w][1].pc = "release"]
    /\ llW' = [llW EXCEPT ![w].pc = "idle"]
    /\ UNCHANGED <<llKind, llLocked, llWriteMu, llPanicked>>
    /\ UNCHANGED nodeOthers

\* dequeue(): q.head.manageRightLocks()
StartDequeue(w) ==
    /\ CanCall(w)
    /\ llKind = "queue"
    /\ llG' = [llG EXCEPT ![w][1] = ManageRight(LlHead)]
    /\ llW' = [llW EXCEPT ![w] = [pc |-> "dq_head", n |-> LlHead, ops |-> @.ops + 1]]
    /\ UNCHANGED <<llKind, llList, llLocked, llWriteMu, llPanicked>>
    /\ UNCHANGED nodeOthers

\* dequeue(): <-ch; n := q.head.next; the queue is empty, or
\* n.manageRightLocks()
DequeueHead(w) ==
    /\ ~llPanicked
    /\ llW[w].pc = "dq_head"
    /\ llG[w][1].pc = "send"
    /\ IF llList.next[LlHead] = LlTail
       THEN /\ llG' = [llG EXCEPT ![w][1].pc = "release"]
            /\ llW' = [llW EXCEPT ![w].pc = "idle"]
       ELSE /\ llG' = [llG EXCEPT ![w][1].pc = "hold",
                                  ![w][2] = ManageRight(llList.next[LlHead])]
            /\ llW' = [llW EXCEPT ![w].pc = "dq_node", ![w].n = llList.next[LlHead]]
    /\ UNCHANGED <<llKind, llList, llLocked, llWriteMu, llPanicked>>
    /\ UNCHANGED nodeOthers

\* dequeue(): <-chl; n._RemoveSelf(); the deferred closes of donel and done
DequeueRemove(w) ==
    /\ ~llPanicked
    /\ llW[w].pc = "dq_node"
    /\ llG[w][2].pc = "send"
    /\ llList' = RemoveSelfLinks(llList, llW[w].n)
    /\ llG' = [llG EXCEPT ![w][1].pc = "release", ![w][2].pc = "release"]
    /\ llW' = [llW EXCEPT ![w].pc = "idle"]
    /\ UNCHANGED <<llKind, llLocked, llWriteMu, llPanicked>>
    /\ UNCHANGED nodeOthers

\* SafeSet.Add of a value that is not in the set: writeMu.Lock(),
\* s.head.AddRight(value) starts manageRightLocks
StartAdd(w) ==
    /\ CanCall(w)
    /\ llKind = "set"
    /\ llWriteMu = NoWorker
    /\ llWriteMu' = w
    /\ llG' = [llG EXCEPT ![w][1] = ManageRight(LlHead)]
    /\ llW' = [llW EXCEPT ![w] = [pc |-> "ar_wait", n |-> LlHead, ops |-> @.ops + 1]]
    /\ UNCHANGED <<llKind, llList, llLocked, llPanicked>>
    /\ UNCHANGED nodeOthers

\* AddRight: <-ch, the links, the close of done; s.mp.Set; writeMu.Unlock()
AddLink(w) ==
    /\ ~llPanicked
    /\ llW[w].pc = "ar_wait"
    /\ llG[w][1].pc = "send"
    /\ llList' = [LinkBetween(llList, LlHead, llList.next[LlHead])
                    EXCEPT !.members = @ \cup {llList.used + 1}]
    /\ llG' = [llG EXCEPT ![w][1].pc = "release"]
    /\ llW' = [llW EXCEPT ![w].pc = "idle"]
    /\ llWriteMu' = NoWorker
    /\ UNCHANGED <<llKind, llLocked, llPanicked>>
    /\ UNCHANGED nodeOthers

\* SafeSet.Remove of a value of the set: writeMu.Lock(), n.RemoveSelf()
\* starts manageRightLocks and manageLeftLocks
StartRemove(w, n) ==
    /\ CanCall(w)
    /\ llKind = "set"
    /\ n \in llList.members
    /\ llWriteMu = NoWorker
    /\ llWriteMu' = w
    /\ llG' = [llG EXCEPT ![w][1] = ManageRight(n), ![w][2] = ManageLeft(n)]
    /\ llW' = [llW EXCEPT ![w] = [pc |-> "rm_right", n |-> n, ops |-> @.ops + 1]]
    /\ UNCHANGED <<llKind, llList, llLocked, llPanicked>>
    /\ UNCHANGED nodeOthers

\* RemoveSelf: <-rch
RemoveRecvRight(w) ==
    /\ ~llPanicked
    /\ llW[w].pc = "rm_right"
    /\ llG[w][1].pc = "send"
    /\ llG' = [llG EXCEPT ![w][1].pc = "hold"]
    /\ llW' = [llW EXCEPT ![w].pc = "rm_left"]
    /\ UNCHANGED <<llKind, llList, llLocked, llWriteMu, llPanicked>>
    /\ UNCHANGED nodeOthers

\* RemoveSelf: <-lch, _RemoveSelf, the closes; s.mp.Delete; writeMu.Unlock()
RemoveUnlink(w) ==
    /\ ~llPanicked
    /\ llW[w].pc = "rm_left"
    /\ llG[w][2].pc = "send"
    /\ llList' = [RemoveSelfLinks(llList, llW[w].n) EXCEPT !.members = @ \ {llW[w].n}]
    /\ llG' = [llG EXCEPT ![w][1].pc = "release", ![w][2].pc = "release"]
    /\ llW' = [llW EXCEPT ![w].pc = "idle"]
    /\ llWriteMu' = NoWorker
    /\ UNCHANGED <<llKind, llLocked, llPanicked>>
    /\ UNCHANGED nodeOthers

\* the goroutine of Iterate: s.head.GetRight() starts manageRightLocks
StartIterate(w) ==
    /\ CanCall(w)
    /\ llKind = "set"
    /\ llG' = [llG EXCEPT ![w][1] = ManageRight(LlHead)]
    /\ llW' = [llW EXCEPT ![w] = [pc |-> "it_wait", n |-> LlHead, ops |-> @.ops + 1]]
    /\ UNCHANGED <<llKind, llList, llLocked, llWriteMu, llPanicked>>
    /\ UNCHANGED nodeOthers

\* GetRight: <-ch, return n.next, the close of done; the loop ends on nil
IterateNext(w) ==
    /\ ~llPanicked
    /\ llW[w].pc = "it_wait"
    /\ \E k \in Slots :
        /\ llG[w][k].pc = "send"
        /\ llG' = [llG EXCEPT ![w][k].pc = "release"]
    /\ llW' = [llW EXCEPT ![w].n = llList.next[llW[w].n],
                          ![w].pc = IF llList.next[llW[w].n] = NilNode
                                    THEN "idle" ELSE "it_yield"]
    /\ UNCHANGED <<llKind, llList, llLocked, llWriteMu, llPanicked>>
    /\ UNCHANGED nodeOthers

\* Iterate: ch <- node.GetValue() is received; node.GetRight() starts
\* manageRightLocks
IterateYield(w) ==
    /\ ~llPanicked
    /\ llW[w].pc = "it_yield"
    /\ \E k \in Slots :
        /\ llG[w][k].pc = "off"
        /\ \A j \in Slots : j < k => llG[w][j].pc # "off"
        /\ llG' = [llG EXCEPT ![w][k] = ManageRight(llW[w].n)]
    /\ llW' = [llW EXCEPT ![w].pc = "it_wait"]
    /\ UNCHANGED <<llKind, llList, llLocked, llWriteMu, llPanicked>>
    /\ UNCHANGED nodeOthers

\* a list under a queue or under a set; nothing else is in use
NodeInit ==
    /\ ManagerNew
    /\ RegIdle
    /\ NoConn
    /\ NewEventBus
    /\ NewSafeQueue(FALSE)
    /\ NewEventsManager
    /\ NoFeed
    /\ LineIdle
    /\ FactoryIdle
    /\ \E kind \in {"queue", "set"} : NewList(kind)

LockStep(w, k) ==
    \/ RightLockOwn(w, k)
    \/ RightReadNext(w, k)
    \/ RightLockNext(w, k)
    \/ LeftReadPrev(w, k)
    \/ LeftLockPrev(w, k)
    \/ LeftCheckPrev(w, k)
    \/ LeftLockOwn(w, k)
    \/ LockRelease(w, k)

WorkerGoesOn(w) ==
    \/ EnqueueLink(w)
    \/ DequeueHead(w)
    \/ DequeueRemove(w)
    \/ AddLink(w)
    \/ RemoveRecvRight(w)
    \/ RemoveUnlink(w)
    \/ IterateNext(w)
    \/ IterateYield(w)

NodeNext ==
    \/ \E w \in Workers : StartEnqueue(w)
    \/ \E w \in Workers : StartDequeue(w)
    \/ \E w \in Workers : StartAdd(w)
    \/ \E w \in Workers, n \in LlNodes : StartRemove(w, n)
    \/ \E w \in Workers : StartIterate(w)
    \/ \E w \in Workers : WorkerGoesOn(w)
    \/ \E w \in Workers, k \in Slots : LockStep(w, k)

SpecNodes == NodeInit /\ [][NodeNext]_vars

\* a goroutine that can take a step takes it; a mutex that is free again
\* and again is given to a goroutine that keeps waiting for it
NodeFairness ==
    /\ \A w \in Workers : WF_vars(WorkerGoesOn(w))
    /\ \A w \in Workers, k \in Slots :
        /\ WF_vars(RightReadNext(w, k) \/ LeftReadPrev(w, k) \/ LeftCheckPrev(w, k)
                     \/ LockRelease(w, k))
        /\ SF_vars(RightLockOwn(w, k) \/ RightLockNext(w, k) \/ LeftLockPrev(w, k)
                     \/ LeftLockOwn(w, k))

SpecNodesLive == NodeInit /\ [][NodeNext]_vars /\ NodeFairness

----------------------------------------------------------------------------
(* The manager with a scheduler that is fair: a goroutine that can take a  *)
(* step takes it, and sync.Mutex hands the lock to a goroutine that keeps  *)
(* waiting for it (its starvation mode).                                   *)

MgrFairness ==
    \A t \in Callers :
        /\ SF_vars(AddLock(t))
        /\ SF_vars(AddEvictLock(t))
        /\ WF_vars(AddBody(t))
        /\ WF_vars(AddEvictBody(t))
        /\ WF_vars(RemBody(t))

SpecMgrLive == MgrInit /\ [][MgrNext]_vars /\ MgrFairness


----------------------------------------------------------------------------
(* The admission wait in smaller steps: between the Publish of the         *)
(* registering_robot event and the select of handleRegisteringRobotEvent   *)
(* the goroutine of the connection can be overtaken by the operator's      *)
(* answer and by the handler goroutine that carries it.                    *)

\* registeringRobots.Add, then Publish of the registering_robot event
RegPublish(s) ==
    /\ ~panicked
    /\ pc[s] = "reg_add"
    /\ registering' = registering \cup {RegRobotOf(s)}
    /\ reg' = [reg EXCEPT ![s].published = TRUE]
    /\ pc' = [pc EXCEPT ![s] = "reg_select"]
    /\ UNCHANGED <<robotsByID, robotsByIP, mu, closed, nextHandler, panicked, call>>
    /\ UNCHANGED libVars
    /\ UNCHANGED <<sockIp, channel, subscribers, inflight, ctxDone, out, ownAccept>>

\* the goroutine reaches the select and parks in it
RegSelect(s) ==
    /\ ~panicked
    /\ pc[s] = "reg_select"
    /\ pc' = [pc EXCEPT ![s] = "reg_wait"]
    /\ UNCHANGED <<robotsByID, robotsByIP, mu, closed, nextHandler, panicked, call>>
    /\ UNCHANGED libVars
    /\ UNCHANGED <<sockIp, reg, channel, subscribers, registering, inflight,
                   ctxDone, out, ownAccept>>

\* the operator has seen the registering_robot event of the registration of
\* s and answers it: POST of accept "yes" / "no" with the robot of the event
OperatorAnswers(s, b) ==
    /\ reg[s].published
    /\ reg[s].how = "none"
    /\ OperatorDecide(reg[s].dev, sockIp[s], reg[s].type, b)

WaitNext ==
    \/ \E s \in Socks, d \in DeviceIds, ty \in Types : ReadRegister(s, d, ty)
    \/ \E s \in Socks : RegPublish(s)
    \/ \E s \in Socks : RegSelect(s)
    \/ \E s \in Socks : RegTimeout(s)
    \/ \E s \in Socks : RegCancel(s)
    \/ \E s \in Socks : RegRemove(s)
    \/ \E s \in Socks, b \in BOOLEAN : OperatorAnswers(s, b)
    \/ \E inv \in inflight : HandlerDelivers(inv)
    \/ \E inv \in inflight : HandlerDrops(inv)
    \/ \E inv \in inflight : HandlerPanics(inv)
    \/ Cancel

SpecWait == Init /\ [][WaitNext]_vars
----------------------------------------------------------------------------
(* Claims about the two indices.                                           *)

\* no manager call is under way
Quiescent == \A t \in Threads : pc[t] \in {"idle", "add_ret", "rem_ret"}

LiveIds == {d \in DeviceIds : Exists(robotsByID, d)}
LiveIps == {i \in Ips : Exists(robotsByIP, i)}
PairsByID == {<<d, robotsByID[d]>> : d \in LiveIds}
PairsByIPProjected == {<<GetDeviceID(robotsByIP[i]), robotsByIP[i]>> : i \in LiveIps}

IndexConsistent ==
    /\ PairsByID = PairsByIPProjected
    /\ Cardinality(LiveIds) = Cardinality(LiveIps)

\* C1: after every add_robot / remove_robot call has returned, by_id and the
\* projection of by_ip by device id hold the same (device id, handler) pairs
\* and the two indices have the same number of entries.
C1_IndexConsistency == Quiescent => IndexConsistent

\* C2: two concurrent add_robot calls for one device id from two different
\* ips leave one live handler for the device, with by_id[d] and exactly one
\* by_ip entry pointing to it.
C2_OneSurvivor ==
    \A t1 \in Callers, t2 \in Callers :
        ( /\ t1 # t2
          /\ pc[t1] = "add_ret" /\ pc[t2] = "add_ret"
          /\ call[t1].dev = call[t2].dev
          /\ call[t1].ip # call[t2].ip )
        => LET d == call[t1].dev IN
           /\ Exists(robotsByID, d)
           /\ Cardinality({i \in Ips : robotsByIP[i] = robotsByID[d]}) = 1

\* the step in which the AddRobot call of t returns
AddReturns(t) == pc[t] = "add_body" /\ pc'[t] = "add_ret"

\* C3: if device d is live at ip i1 and add_robot(d, i2, h) is called with
\* i2 # i1 and i2 held by nobody, then afterwards a lookup by i1 fails with
\* robot-not-found, a lookup by i2 returns d's handler and the robot
\* reported for d has ip = i2.
C3_TransferMovesRobot ==
    [][\A t \in Threads, i1 \in Ips :
          ( /\ AddReturns(t)
            /\ i1 # call[t].ip
            /\ Exists(robotsByID, call[t].dev)
            /\ robotsByIP[i1] = robotsByID[call[t].dev]
            /\ ~Exists(robotsByIP, call[t].ip) )
          => /\ GetHandler(NoId, i1)'.err = ErrRobotNotFound
             /\ GetHandler(NoId, call[t].ip)'.err = ErrNone
             /\ GetHandler(NoId, call[t].ip)'.h = GetHandler(call[t].dev, NoId)'.h
             /\ GetRobot(call[t].dev, NoId)'.robot.ip = call[t].ip
      ]_vars

\* some handler with this id is still in an index
Indexed(hid) ==
    \/ \E d \in DeviceIds : robotsByID[d].id = hid
    \/ \E i \in Ips : robotsByIP[i].id = hid

\* C5: if d1 is live on ip i and add_robot(d2, i, h2) is called with d2 # d1,
\* then d1's disconnect channel is closed, d1's handler is in neither index,
\* and when the call returns by_id[d2] = by_ip[i] = h2.
C5_EvictionAdmitsNewcomer ==
    [][\A t \in Threads :
          (AddReturns(t) /\ call[t].evicted # {})
          => /\ \A hid \in call[t].evicted : hid \in closed' /\ ~Indexed(hid)'
             /\ robotsByID'[call[t].dev] = call[t].h
             /\ robotsByIP'[call[t].ip] = call[t].h
      ]_vars

----------------------------------------------------------------------------
(* Claims about the admission workflow and the REGISTER verb.              *)

\* C4: when an accepted REGISTER for a live device from a new ip makes
\* add_robot report robot-transfer, the client is answered OK with no ERROR
\* line and the robot is live under the new ip.
C4_TransferAnsweredOK ==
    [][\A s \in Socks :
          ( /\ pc[s] = "add_ret" /\ pc'[s] = "idle"
            /\ call[s].res = ErrRobotTransfer )
          => /\ out'[s] = <<"REGISTERING", "OK">>
             /\ GetDeviceID(robotsByIP'[sockIp[s]]) = reg[s].dev
      ]_vars

\* C6: a device is put into the indices by register_robot only after a
\* decision carrying true was published for its own (device id, ip, type)
\* while the registration was pending; a reject, a timeout or a cancellation
\* never leads to an insertion.
C6_OnlyOwnAcceptAdmits ==
    \A s \in Socks :
        (pc[s] = "add_ret" /\ call[s].res \in {ErrNone, ErrRobotTransfer})
        => /\ ownAccept[s]
           /\ reg[s].how = "decision"
           /\ reg[s].accepted

\* C7: when the operator rejects a pending registration, the REGISTER is
\* answered ERROR ROBOT_NOT_ACCEPTED and no handler is created for the device.
C7_RejectAnswered ==
    \A s \in Socks :
        (pc[s] = "idle" /\ reg[s].how = "decision" /\ ~reg[s].accepted)
        => /\ out[s] = <<"REGISTERING", "ERROR ROBOT_NOT_ACCEPTED">>
           /\ reg[s].hid = 0

\* C8: when the admission wait ends by the timeout, register_robot returns
\* robot-not-accepted, and once it has returned the registering set does not
\* contain the registration.
C8_TimeoutNotAccepted ==
    \A s \in Socks :
        (pc[s] = "idle" /\ reg[s].how = "timeout")
        => /\ reg[s].err = ErrRobotNotAccepted
           /\ RegRobotOf(s) \notin registering

\* a REGISTER has timed out and has been answered
C8_Witness ==
    \E s \in Socks :
        /\ pc[s] = "idle"
        /\ reg[s].how = "timeout"
        /\ reg[s].published
        /\ reg[s].err = ErrRobotNotAccepted
        /\ RegRobotOf(s) \notin registering

\* C9: a REGISTER for a type with no factory fails with the unknown-type
\* error as the first step: no registering_robot event is published, nothing
\* is added to the registering set and no operator decision is waited for.
C9_UnknownTypeRejectedFirst ==
    \A s \in Socks :
        (reg[s].gen > 0 /\ reg[s].type \notin ROBOT_FACTORY)
        => /\ ~reg[s].published
           /\ RegRobotOf(s) \notin registering
           /\ pc[s] # "reg_wait"

\* the final lines of the REGISTER verb
FinalLines == {"OK", "ERROR NO_ROBOT_TYPE_CONN_HANDLER", "ERROR CREATE_CONN_HANDLER",
               "ERROR ROBOT_ALREADY_EXISTS", "ERROR NO_DISCONNECT_CHANNEL",
               "ERROR UNKNOWN"}

----------------------------------------------------------------------------
(* Claims about the event bus.                                             *)

\* the publisher's last Publish call has returned
PublishOver == pub.n > 0 /\ pub.st = "idle"

\* C11: a subscriber that is subscribed to the event type from before a
\* Publish call begins until after it has returned gets exactly one handler
\* invocation for it: never more than one while the call runs, and one once
\* it is over.
C11_ExactlyOnePerPublish ==
    /\ \A s \in pub.elig : pub.cnt[s] <= 1
    /\ PublishOver => \A s \in pub.elig : pub.cnt[s] = 1

\* C12: a panic of a handler stays inside the goroutine that runs the
\* handler: it never ends the process, so the bus goes on delivering to the
\* other subscribers.
C12_PanicIsolated == ~crashed

\* the forward entry: s is in the set that eb.subscriptions holds for T
HasForward(T, s) ==
    /\ busSubscriptions[T] # NoObj
    /\ Contains(busSubscriptions[T], s)

\* the reverse entry: the map that eb.handlers holds for s has a handler
\* for T
HasReverse(T, s) ==
    /\ busHandlers[s] # NoObj
    /\ T \in mapObjs[busHandlers[s]]

C14_NoDeliveryAfterUnsubscribe == \A s \in pub.gone : pub.cnt[s] = 0

\* a Publish that delivered to one subscriber has returned, and another
\* subscriber had been subscribed and unsubscribed before it began
C14_Witness ==
    /\ PublishOver
    /\ \E s \in pub.gone, o \in BusSubs :
          /\ pub.cnt[o] = 1
          /\ setObjs[1].mp[o] # NoObj
          /\ \E n \in 1..Len(nodeObjs) : nodeObjs[n].value = s

\* C15: when Unsubscribe("", s) has returned and no Subscribe for s has
\* overlapped with it, s is in no set of the forward index, eb.handlers has
\* no entry for s, and the forward index holds no empty set.
C15_UnsubscribeAllLeavesNothing ==
    \A t \in BusClients :
       (bpc[t] = "un_ret" /\ bcall[t].all /\ bcall[t].clean) =>
          /\ \A T \in BusTypes : ~HasForward(T, bcall[t].sub)
          /\ busHandlers[bcall[t].sub] = NoObj
          /\ \A T \in BusTypes :
                busSubscriptions[T] # NoObj => ~SetIsEmpty(busSubscriptions[T])

\* C16: at every moment at most LimiterCap handler invocations are in
\* flight.
C16_InFlightBounded == running <= LimiterCap

\* the limiter is full, and the publisher has a subscriber with a handler in
\* hand and waits for room
C16_Witness ==
    /\ running = LimiterCap
    /\ pub.st = "send"
    /\ HandlerFound(nodeObjs[pub.node].value)

----------------------------------------------------------------------------
(* Claims about the safe queue.                                            *)

\* the values of producer k in a sequence of values, in their order there
FromProducer(seq, k) == SelectSeq(seq, LAMBDA v : v[1] = k)

\* the values producer k has enqueued so far, in the order of its calls
EnqueuedBy(k) == [i \in 1..qProd[<<"prod", k>>].n |-> <<k, i>>]

\* C17: the values dequeue has returned, followed by the values still in
\* the queue, hold every producer's values exactly once and in the order in
\* which that producer enqueued them (with one producer: they are the
\* enqueued sequence).
C17_FifoPerProducer ==
    \A k \in 1..NumProducers :
       FromProducer(qOut \o qList, k) = EnqueuedBy(k)

\* a queue in wait mode has handed out every value of both producers, and
\* the first two came from different producers
C17_Witness ==
    /\ qUseWait
    /\ Len(qOut) = NumProducers * MaxEnqueues
    /\ qOut[1][1] # qOut[2][1]

\* the Read calls that have returned a value so far
Returned ==
    Len(qOut) - Cardinality({r \in Readers : qRead[r].pc = "ack" /\ qRead[r].ok})

\* C18: in wait mode, whenever a reader waits in Read(true) and a value is
\* in the queue, a Read call returns a value later on: no order of the steps
\* of Enqueue, of startNotify and of the readers leaves the value in the
\* queue and the reader waiting.
C18_NoLostWakeup ==
    \A n \in 0..(NumProducers * MaxEnqueues) :
       (/\ Returned = n
        /\ qList # <<>>
        /\ \E r \in Readers : qRead[r].pc = "recv")
          ~> (Returned > n)

\* a reader that began to wait on an empty queue has returned with a value
C18_Witness ==
    \E r \in Readers :
       /\ qRead[r].slept
       /\ qRead[r].pc = "idle"
       /\ qRead[r].ok

\* C19: closing a queue, any number of times and from any number of
\* goroutines, never panics: no step of a Close call panics, and neither
\* does the queue's own startNotify goroutine because of a Close.
C19_CloseNeverPanics ==
    [][((\E c \in Closers : CloserStep(c)) \/ CoordSendClosed)
          => ~qPanicked']_vars

\* the clients of the user session u that are registered and have not ended
LiveClients(u) ==
    {k \in EventSessions : /\ k.Session = u
                           /\ sseClients[k] # NoClient
                           /\ ~sseObjs[sseClients[k]].ended}

\* C20: for any user session, at most one client is registered and live:
\* a second stream of the same user session evicts the client of the first.
C20_OneLiveClientPerSession ==
    \A u \in UserSessions : Cardinality(LiveClients(u)) <= 1

\* C21: the cleanup of a client takes effect at most once: whichever of the
\* stream's end, the exit of ReadMsgQueue and an eviction trigger it, only
\* one run of cleanup gets past the check of ended and performs the steps.
C21_CleanupOnce ==
    \A o \in 1..Len(sseObjs) : sseObjs[o].cleanups <= 1

\* C22: when the session frame is written to a stream, the client is
\* subscribed on the bus to every event type of the request's events list.
C22_SubscribedBeforeSessionFrame ==
    [][\A h \in Streams :
          (/\ stream[h].client # NoClient
           /\ stream[h].client <= Len(sseObjs)
           /\ sseObjs[stream[h].client].frames = <<>>
           /\ sseObjs'[stream[h].client].frames # <<>>)
             => stream[h].names \subseteq sseObjs'[stream[h].client].subs]_vars

\* C23: the first frame written on a stream has the type __session_id and
\* carries the event session of the stream; no event frame precedes it.
C23_SessionFrameFirst ==
    \A o \in Clients :
       sseObjs[o].frames # <<>> =>
          /\ FrameEvent(sseObjs[o].frames[1]).Type = EVENT_TYPE_SESSION_ID
          /\ FrameData(sseObjs[o].frames[1]) = sseObjs[o].Session

\* an event frame has followed the session frame of a stream
C23_Witness ==
    \E o \in Clients :
       /\ Len(sseObjs[o].frames) >= 2
       /\ sseObjs[o].frames[2].ev # 0

\* the frames on the stream of client o that come from the published event e
FramesOf(o, e) ==
    {i \in 1..Len(sseObjs[o].frames) : sseObjs[o].frames[i].ev = e}

\* Publish has returned, the goroutines it started have returned, and the
\* client o waits in Read with an empty queue
Delivered(o) ==
    /\ ssePub.pending = {}
    /\ sseCalls = {}
    /\ ~sseCrashed
    /\ sseObjs[o].queue = <<>>
    /\ sseObjs[o].reader = "read"

\* C24: an event published on a type that a client is subscribed to, the
\* client not having ended, gives exactly one frame on the client's stream:
\* never more than one, one when the delivery is over, and every event frame
\* has the type and the data of the published event.
C24_OneFramePerEvent ==
    \A o \in Clients :
       /\ \A i \in 1..Len(sseObjs[o].frames) :
             LET frame == sseObjs[o].frames[i]
             IN  frame.ev # 0 =>
                    /\ FrameEvent(frame).Type = ssePublished[frame.ev].Type
                    /\ FrameData(frame) = ssePublished[frame.ev].Data
       /\ \A e \in sseObjs[o].steady :
             /\ Cardinality(FramesOf(o, e)) <= 1
             /\ Delivered(o) => Cardinality(FramesOf(o, e)) = 1

C29_SendMsgEnqueuesWithoutWaiting ==
    \A m \in {lnCaller.msg : x \in {1} \cap {IF lnCaller.pc = "sendmsg" THEN 1 ELSE 0}}
          \cup {lnLoop.msg : x \in {1} \cap {IF lnLoop.pc = "sendmsg"
                                                /\ lnLoop.msg.Msg # "TRANSFER" THEN 1 ELSE 0}} :
        ~lnMsgChan.nil =>
            /\ ~SendMsg(lnKind, lnMsgChan, m).waits
            /\ Len(lnMsgChan.buf) < MsgChanCap =>
                /\ SendMsg(lnKind, lnMsgChan, m).err = ErrNone
                /\ SendMsg(lnKind, lnMsgChan, m).ch.buf = Append(lnMsgChan.buf, m)

\* C26: once the main context is cancelled, a RegisterRobot call that is
\* waiting for its decision leaves the wait not accepted and returns
\* ErrRobotNotAccepted; and when no connection is inside a REGISTER and
\* every goroutine that watches a robot has run Stop and RemoveRobot and
\* has exited, both indices are empty and the disconnect channel of every
\* handler that was made is closed (Start has returned).
C26_ShutdownLeavesNothing ==
    [][(ctxDone' /\ ~panicked') =>
        /\ \A s \in Socks :
            /\ (ctxDone /\ pc[s] = "reg_wait" /\ pc'[s] # "reg_wait") => ~reg'[s].accepted
            /\ (ctxDone /\ pc[s] = "reg_close" /\ pc'[s] # "reg_close" /\ ~reg[s].accepted)
                    => (pc'[s] = "idle" /\ reg'[s].err = ErrRobotNotAccepted)
        /\ ((\A s \in Socks : pc'[s] = "idle") /\ (\A t \in Sups : pc'[t] \in {"idle", "rem_ret"}))
            => /\ \A d \in DeviceIds : robotsByID'[d] = NoHandler
               /\ \A i \in Ips : robotsByIP'[i] = NoHandler
               /\ \A t \in Sups : pc'[t] = "rem_ret" => t[2] \in closed']_vars

\* C27: a RemoveRobot call that is given a device id and an ip, of which at
\* least one is in its index and which do not have the same handler,
\* returns ErrRobotMismatch, closes no disconnect channel and leaves
\* robotsByID and robotsByIP as they are.
C27_MismatchRemovesNothing ==
    [][\A t \in Callers :
        (/\ pc[t] = "rem_body"
         /\ pc'[t] # "rem_body"
         /\ call[t].dev # NoId
         /\ call[t].ip # NoId
         /\ Lookup(robotsByID, call[t].dev) # Lookup(robotsByIP, call[t].ip))
        => /\ call'[t].res = ErrRobotMismatch
           /\ closed' = closed
           /\ robotsByID' = robotsByID
           /\ robotsByIP' = robotsByIP]_vars

\* a RemoveRobot that named a live device and the ip of another live robot
\* has returned ErrRobotMismatch
C27_Witness ==
    \E t \in Callers :
        /\ pc[t] = "rem_ret"
        /\ call[t].op = "remove"
        /\ call[t].res = ErrRobotMismatch
        /\ Lookup(robotsByID, call[t].dev) # NoHandler
        /\ Lookup(robotsByIP, call[t].ip) # NoHandler

\* C28: in every state of the manager, for a device id alone, an ip alone
\* or a device id and an ip that each name no live robot, GetHandler,
\* GetRobot, SendMessage and RemoveRobot give ErrRobotNotFound, and
\* RemoveRobot leaves both indices and the disconnect channels as they are.
C28_UnknownIsNotFound ==
    \A d \in DeviceIds \cup {NoId}, i \in Ips \cup {NoId} :
        (/\ d # NoId \/ i # NoId
         /\ d # NoId => Lookup(robotsByID, d) = NoHandler
         /\ i # NoId => Lookup(robotsByIP, i) = NoHandler)
        => /\ GetHandler(d, i).err = ErrRobotNotFound
           /\ GetRobot(d, i).err = ErrRobotNotFound
           /\ SendMessage(d, i).err = ErrRobotNotFound
           /\ RemoveRobotBody(robotsByID, robotsByIP, closed, d, i) =
                [byID |-> robotsByID, byIP |-> robotsByIP, closed |-> closed,
                 res |-> ErrRobotNotFound]

\* C30: the factory that was registered first for a robot type is the one
\* the registry holds for the type, whatever AddRobotType calls follow.
C30_FirstFactoryStays ==
    \A ty \in RobotTypeTags :
        factoryFirst[ty] \in FactoryFuncs => robotFactory[ty] = factoryFirst[ty]

\* C31: once the goroutine that watches a robot has found the disconnect
\* channel closed, has run Stop and RemoveRobot and has exited, the handler
\* of the robot is in neither index.
C31_TeardownRemovesRobot ==
    \A t \in Sups :
        (pc[t] = "rem_ret" /\ ~panicked /\ call[t].h.id \in closed)
        => /\ \A d \in DeviceIds : robotsByID[d] # call[t].h
           /\ \A i \in Ips : robotsByIP[i] # call[t].h

\* C32: every AddRobot call that a goroutine has begun returns later on,
\* whatever AddRobot and RemoveRobot calls run beside it, and a call that
\* has returned does not hold the lock of the manager.
C32_AddRobotReturns ==
    /\ [](\A t \in Callers : pc[t] = "add_ret" => mu # t)
    /\ \A t \in Callers :
          (pc[t] \in {"add_body", "add_evict", "add_evict_body", "add_lock"})
             ~> (pc[t] = "add_ret")

\* C34: on a queue without wait mode, whenever no Enqueue and no Dequeue
\* call is under way, Size() is the number of values in the queue: the
\* values enqueued and not yet dequeued.
C34_SizeIsCount ==
    (/\ ~qUseWait
     /\ \A p \in Producers : qProd[p].pc = "idle"
     /\ \A r \in Readers : qRead[r].pc = "idle")
    => qLen = Len(qList)

\* C33: every call on a queue (Enqueue, Dequeue) or on a set (Add, Remove,
\* Iterate) that has begun comes to its end, whatever calls other
\* goroutines make on the neighbouring nodes at the same time: the
\* goroutines that lock the sides of the nodes never wait for each other
\* in a circle.
C33_NodeCallsComplete ==
    \A w \in Workers : (llW[w].pc # "idle") ~> (llW[w].pc = "idle")

\* a goroutine of one call waits for the leftLock of its node, which a
\* goroutine of a call of another worker holds; the waiting worker has
\* already completed an earlier call
C33_Witness ==
    \E w, v \in Workers, k, j \in Slots :
        /\ w # v
        /\ llW[w].ops = MaxNodeOps
        /\ llG[w][k].pc = "l_own"
        /\ <<"L", llG[w][k].n>> \in llG[v][j].held

\* C35: a decision published for a pending registration (d, i, t) ends the
\* admission wait of that registration only: while the registration it
\* was published for is pending, it never ends the wait of a registration
\* whose device id, ip or type differs.
C35_DecisionResolvesOwnOnly ==
    [][\A inv \in inflight :
          ( /\ inv \notin inflight'
            /\ pc[inv.sock] = "reg_wait"
            /\ pc'[inv.sock] = "reg_close"
            /\ reg'[inv.sock].how = "decision"
            /\ \E s \in Socks : Pending(s) /\ RegRobotOf(s) = inv.robot )
          => inv.robot = RegRobotOf(inv.sock)
      ]_vars

\* C36: a decision that the operator publishes for a registration after
\* its registering_robot event was published is taken by the waiting
\* register_robot call: when the handler goroutine that carries it runs
\* while the call has taken no result yet and the main context is not
\* done, the call leaves its wait with that decision.
C36_DecisionReachesWaiter ==
    [][\A inv \in inflight :
          ( /\ inv \notin inflight'
            /\ inv.robot = RegRobotOf(inv.sock)
            /\ inv.gen = reg[inv.sock].gen
            /\ reg[inv.sock].how = "none"
            /\ ~ctxDone )
          => /\ reg'[inv.sock].how = "decision"
             /\ reg'[inv.sock].accepted = inv.val
      ]_vars

\* C37: a handler goroutine that carries a decision for a registration
\* whose wait is over and whose channel is closed (a late or repeated
\* decision) does not panic.
C37_LateDecisionIgnored ==
    [][\A inv \in inflight :
          (inv \notin inflight' /\ ChannelClosed(inv)) => ~panicked'
      ]_vars

\* C38: when the robot of a supervisor goroutine has been taken out of both
\* indices by someone else (the eviction of AddRobot, a RemoveRobot call),
\* the RemoveRobot(device id, ip) call the supervisor makes afterwards does
\* not panic and leaves both indices as they are.
C38_TeardownAfterRemovalHarmless ==
    [][\A t \in Sups :
          ( /\ pc[t] = "rem_body"
            /\ pc'[t] = "rem_ret"
            /\ \A d \in DeviceIds : robotsByID[d] # call[t].h
            /\ \A i \in Ips : robotsByIP[i] # call[t].h )
          => /\ ~panicked'
             /\ robotsByID' = robotsByID
             /\ robotsByIP' = robotsByIP
      ]_vars

\* C39: once the cleanup of a client has been run from outside its drain
\* goroutine (the stream has ended, or the client was evicted), the queue
\* read of the drain goroutine returns: the goroutine is never left inside
\* SafeQueue.Read on a channel send that nobody will receive.
C39_DrainNeverStuck ==
    \A o \in 1..Len(sseObjs) :
        (sseObjs[o].ended /\ sseObjs[o].msgQueue = "closed")
        => sseObjs[o].reader # "stuck"

\* C40: a HandleEvent call for a client whose cleanup runs at the same time
\* or has run does not panic: its Enqueue never sends on a closed channel.
C40_HandleEventNeverPanics ==
    [][\A goroutine \in sseCalls :
          ( /\ goroutine \notin sseCalls'
            /\ goroutine.kind = "enqueue"
            /\ sseObjs[goroutine.client].ended )
          => ~sseCrashed'
      ]_vars

====
